---- MODULE Spec2Model ----
(***************************************************************************)
(* RandomAccessLayeredStorage (lib/random-access-layered-storage.js): an   *)
(* in-memory page overlay in front of an underlying random-access storage. *)
(*                                                                         *)
(* Specification Spec is the sequential view of the store: every action is *)
(* one whole public operation run from a quiescent state to its callback   *)
(* (the caller chains callbacks, so no two operations are in flight        *)
(* together).  The page loops of the source (readNext, writeNext,          *)
(* deleteNext, flushNext, evictNext) are RECURSIVE operators over a record *)
(* of the store's fields.                                                  *)
(*                                                                         *)
(* Collaborators that are not part of the repository are modelled by what  *)
(* the store relies on:                                                    *)
(*  - the underlying storage is a random-access-memory like byte array:    *)
(*    read(offset, size) fails when offset + size exceeds its length,      *)
(*    write extends it (zero filling any gap), truncate sets its length;   *)
(*  - this._lru is lru-cache ^11 (package.json): an ordered key list with  *)
(*    capacity max, whose dispose hook is invoked as                       *)
(*    dispose(value, key, reason).                                         *)
(***************************************************************************)
EXTENDS Integers, Sequences, FiniteSets, TLC

\* ----------------------------------------------------------------- bounds
\* opts.pageSize (the source defaults to 1 MiB)
pageSize == 2
\* opts.maxPages (the source defaults to 100)
maxPages == 1
\* largest byte value written by the modelled callers
MaxByte == 1

\* The callers address one page more than the LRU can hold.
NumPages == maxPages + 1
MaxAddr == pageSize * NumPages

\* ------------------------------------------------------- option defaults
autoFlushOnEvict == TRUE

\* JavaScript values that are not page indices or sizes
Undefined == 0 - 1
\* the value stored under every key of this._lru: _lru.set(pageIndex, true)
LruTrue == 0 - 1
\* del(offset, Infinity): larger than every size the model reaches
Infinity == 2 * MaxAddr + 1

Min(a, b) == IF a < b THEN a ELSE b
Max(a, b) == IF a > b THEN a ELSE b

\* err.message of the errors an operation calls back with; NoError is a
\* callback without an error
NoError == ""
FileDoesNotExist == "File does not exist"
ReadExceedsStrict == "Read exceeds strict size enforcement"
WriteExceedsStrict == "Write exceeds strict size enforcement"
\* the error of the underlying storage when a read passes its end
CouldNotSatisfyLength == "Could not satisfy length"

\* ------------------------------------------------------------ byte buffers
\* b4a.alloc(n, 0)
alloc(n) == [i \in 1..n |-> 0]

\* buf.subarray(start, end): both ends clamped to the buffer
subarray(buf, start, end) ==
    LET lo == Min(start, Len(buf))
        hi == Min(end, Len(buf))
    IN  IF hi <= lo THEN <<>> ELSE SubSeq(buf, lo + 1, hi)

\* target.set(src, at) / src.copy(target): src is written at offset at
bufset(target, src, at) ==
    [i \in 1..Len(target) |->
        IF i > at /\ i <= at + Len(src) THEN src[i - at] ELSE target[i]]

\* buf.fill(0, start, end)
fill0(buf, start, end) ==
    [i \in 1..Len(buf) |-> IF i > start /\ i <= end THEN 0 ELSE buf[i]]

\* ------------------------------------------------------ underlying storage
\* _underlying.read(offset, size, cb): exactly size bytes, or an error
\* ('Could not satisfy length') when the range passes the end
UnderlyingCanRead(u, offset, size) == offset + size <= Len(u)

UnderlyingRead(u, offset, size) == SubSeq(u, offset + 1, offset + size)

\* _underlying.write(offset, buf, cb): writes all of buf, extending the
\* storage (zero filled) to offset + buf.length when that is longer
UnderlyingWrite(u, offset, buf) ==
    LET newLen == Max(Len(u), offset + Len(buf))
    IN  [i \in 1..newLen |->
            IF i > offset /\ i <= offset + Len(buf) THEN buf[i - offset]
            ELSE IF i <= Len(u) THEN u[i] ELSE 0]

\* _underlying.truncate(length, cb): the storage is exactly length bytes long
UnderlyingTruncate(u, length) ==
    [i \in 1..length |-> IF i <= Len(u) THEN u[i] ELSE 0]

\* --------------------------------------------------------------- lru-cache
\* this._lru is kept as the list of its keys, most recently used first
\* (the order of _lru.keys()).
LruHas(l, k) == \E i \in 1..Len(l) : l[i] = k

LruRemove(l, k) == SelectSeq(l, LAMBDA x : x # k)

\* _lru.get(key): promotes a present key to most recently used
LruGet(l, k) == IF LruHas(l, k) THEN <<k>> \o LruRemove(l, k) ELSE l

SeqToSet(l) == {l[i] : i \in 1..Len(l)}

\* ------------------------------------------------------------------ store
\* The fields of one RandomAccessLayeredStorage instance, as a record s:
\*   pages          this._pages: pageIndex -> [data, modified]
\*   lru            this._lru (keys, most recently used first)
\*   pinnedPages    this._pinnedPages
\*   modifiedPages  this._modifiedPages
\*   size           this._size
\*   bitmask        this._bitmask: [present, buf]; present = FALSE is null
\*   fileExists     this._fileExists
\*   strictSizeLimit this._strictSizeLimit (Undefined when the option is unset)
\*   underlying     the bytes held by this._underlying
\* this._accessTimes is written by _touchPage and _evictPage and never read;
\* it is left out.

NoBitmask == [present |-> FALSE, buf |-> <<>>]

\* this._pages.delete(pageIndex)
PagesDelete(pages, pageIndex) ==
    [q \in DOMAIN pages \ {pageIndex} |-> pages[q]]

\* this._pages.set(pageIndex, page)
PagesSet(pages, pageIndex, page) ==
    [q \in DOMAIN pages \cup {pageIndex} |->
        IF q = pageIndex THEN page ELSE pages[q]]

\* _isBitSet(offset, length): every bit of [offset, offset + length) is set
\* (bit i is bit i % 8, least significant first, of byte floor(i / 8))
_isBitSet(s, offset, length) ==
    IF ~s.bitmask.present THEN TRUE
    ELSE \A i \in 0..(length - 1) :
            LET bitIndex == offset + i
                byteIndex == bitIndex \div 8
                bitInByte == bitIndex % 8
            IN  /\ byteIndex < Len(s.bitmask.buf)
                /\ (s.bitmask.buf[byteIndex + 1] \div (2 ^ bitInByte)) % 2 = 1

\* what flushNext hands to _underlying.write for page pageIndex: the store
\* once the underlying storage has taken the bytes
flushWrite(s, offset, end, pageIndex) ==
    LET startPage == offset \div pageSize
        endPage == (end - 1) \div pageSize
        pageOffset == pageIndex * pageSize
        startOffsetInPage ==
            IF pageIndex = startPage THEN offset % pageSize ELSE 0
        endOffsetInPage ==
            IF pageIndex = endPage THEN ((end - 1) % pageSize) + 1
            ELSE pageSize
        writeSize == endOffsetInPage - startOffsetInPage
        bufferToWrite ==
            IF pageIndex \in DOMAIN s.pages
            THEN subarray(s.pages[pageIndex].data,
                          startOffsetInPage, endOffsetInPage)
            ELSE alloc(writeSize)
    IN  [s EXCEPT !.underlying =
            UnderlyingWrite(@, pageOffset + startOffsetInPage, bufferToWrite)]

\* flushNext of _performFlush, from page pageIndex on.  failAt is the page
\* whose _underlying.write calls back with an error (Undefined: none does).
RECURSIVE flushNext(_, _, _, _, _)
flushNext(s, offset, end, pageIndex, failAt) ==
    LET startPage == offset \div pageSize
        endPage == (end - 1) \div pageSize
    IN  IF pageIndex > endPage
        THEN IF s.size < end
             THEN [s |-> [s EXCEPT !.underlying = UnderlyingTruncate(@, s.size)],
                   err |-> FALSE]
             ELSE [s |-> s, err |-> FALSE]
        ELSE
          LET resident == pageIndex \in DOMAIN s.pages
              written == flushWrite(s, offset, end, pageIndex)
              cleared ==
                  IF resident /\ s.pages[pageIndex].modified
                  THEN [written EXCEPT !.pages[pageIndex].modified = FALSE,
                                       !.modifiedPages = @ \ {pageIndex}]
                  ELSE written
          IN  IF pageIndex = failAt
              THEN [s |-> s, err |-> TRUE]
              ELSE flushNext(cleared, offset, end, pageIndex + 1, failAt)

\* a faulty _performFlush: the error of a write is kept for the callback,
\* and the remaining pages are written all the same
_performFlush_goesOn(s, offset, size, failAt) ==
    [s |-> flushNext(s, offset, offset + size, offset \div pageSize, Undefined).s,
     err |-> flushNext(s, offset, offset + size, offset \div pageSize, failAt).err]

\* _performFlush(offset, size, callback)
_performFlush(s, offset, size, failAt) ==
    flushNext(s, offset, offset + size, offset \div pageSize, failAt)

\* a faulty flush: the whole store is flushed, whatever the range
flush_wholeStore(s, offset, size, failAt) ==
    _performFlush(s, 0, s.size, failAt)

\* flush(offset, size, callback): the size is clipped to this._size
flush(s, offset, size, failAt) ==
    _performFlush(s, offset, Min(size, s.size), failAt)

RECURSIVE _onEvict(_, _, _)

\* _lru.delete(key): a present key is disposed of and removed
LruDelete(s, k) ==
    IF LruHas(s.lru, k)
    THEN LET disposed == _onEvict(s, LruTrue, k)
         IN  [disposed EXCEPT !.lru = LruRemove(@, k)]
    ELSE s

\* _evictPage(pageIndex)
_evictPage(s, pageIndex) ==
    IF pageIndex \in s.pinnedPages THEN s
    ELSE LET dropped == [s EXCEPT !.pages = PagesDelete(@, pageIndex)]
             unlisted == LruDelete(dropped, pageIndex)
         IN  [unlisted EXCEPT !.modifiedPages = @ \ {pageIndex}]

\* _onEvict(pageIndex, value), the dispose hook of this._lru.  lru-cache
\* calls dispose(value, key, reason), so the hook's first parameter receives
\* the stored value and its second the key.
_onEvict(s, pageIndex, value) ==
    IF pageIndex \notin DOMAIN s.pages THEN s
    ELSE IF pageIndex \in s.pinnedPages THEN s
    ELSE IF s.pages[pageIndex].modified /\ autoFlushOnEvict
         THEN _evictPage(flush(s, pageIndex * pageSize, pageSize, Undefined).s,
                         pageIndex)
         ELSE _evictPage(s, pageIndex)

\* _lru.set(key, true): a present key is promoted; a new key is added as the
\* most recently used after the least recently used key has been disposed
\* of and dropped when the cache already holds max keys
LruSet(s, k) ==
    IF LruHas(s.lru, k) THEN [s EXCEPT !.lru = <<k>> \o LruRemove(@, k)]
    ELSE IF Len(s.lru) >= maxPages
         THEN LET victim == s.lru[Len(s.lru)]
                  disposed == _onEvict(s, LruTrue, victim)
              IN  [disposed EXCEPT !.lru = <<k>> \o LruRemove(@, victim)]
         ELSE [s EXCEPT !.lru = <<k>> \o @]

\* _touchPage(pageIndex)
_touchPage(s, pageIndex) == [s EXCEPT !.lru = LruGet(@, pageIndex)]

\* the three places of _loadPage that install the page: _pages.set(pageIndex,
\* page) and _lru.set(pageIndex, true), whatever _pages held under the index
insertPage(s, pageIndex, data) ==
    LruSet([s EXCEPT !.pages =
               PagesSet(@, pageIndex, [data |-> data, modified |-> FALSE])],
           pageIndex)

\* _loadPage(pageIndex, callback): [s, err, reads] where reads counts the
\* calls of _underlying.read
_loadPage(s, pageIndex) ==
    LET pageOffset == pageIndex * pageSize
        bytesToRead == Min(pageSize, s.size - pageOffset)
        inserted(data) == insertPage(s, pageIndex, data)
    IN  IF s.fileExists /\ bytesToRead > 0
        THEN IF UnderlyingCanRead(s.underlying, pageOffset, bytesToRead)
             THEN [s |-> inserted(bufset(alloc(pageSize),
                              UnderlyingRead(s.underlying, pageOffset, bytesToRead), 0)),
                   err |-> FALSE, reads |-> 1]
             ELSE [s |-> s, err |-> TRUE, reads |-> 1]
        ELSE [s |-> inserted(alloc(pageSize)), err |-> FALSE, reads |-> 0]

\* _getPage(pageIndex, callback)
_getPage(s, pageIndex) ==
    IF pageIndex \in DOMAIN s.pages
    THEN [s |-> s, err |-> FALSE, reads |-> 0]
    ELSE _loadPage(s, pageIndex)

\* _loadOrCreatePage(pageIndex, callback)
_loadOrCreatePage(s, pageIndex) == _loadPage(s, pageIndex)

\* _getOrCreatePage(pageIndex, callback)
_getOrCreatePage(s, pageIndex) ==
    IF pageIndex \in DOMAIN s.pages
    THEN [s |-> s, err |-> FALSE, reads |-> 0]
    ELSE _loadOrCreatePage(s, pageIndex)

\* -------------------------------------------------------------- operations
\* readNext of _read: [s, err, msg, data, reads]
RECURSIVE readNext(_, _, _, _, _, _)
readNext(s, reqSize, offset, bytesRead, buffer, reads) ==
    IF bytesRead >= reqSize
    THEN [s |-> s, err |-> FALSE, msg |-> NoError, data |-> buffer, reads |-> reads]
    ELSE
      LET pageIndex == offset \div pageSize
          pageOffset == offset % pageSize
          bytesToRead == Min(pageSize - pageOffset, reqSize - bytesRead)
          got == _getPage(s, pageIndex)
          page == got.s.pages[pageIndex]
      IN  IF got.err
          THEN [s |-> got.s, err |-> TRUE, msg |-> CouldNotSatisfyLength,
                data |-> <<>>, reads |-> reads + got.reads]
          ELSE readNext(_touchPage(got.s, pageIndex), reqSize,
                        offset + bytesToRead, bytesRead + bytesToRead,
                        bufset(buffer,
                               subarray(page.data, pageOffset, pageOffset + bytesToRead),
                               bytesRead),
                        reads + got.reads)

\* a faulty _read: the strict limit is compared with the offset of the
\* request instead of its end
_read_offsetLimit(s, offset, size) ==
    IF ~s.fileExists
    THEN [s |-> s, err |-> TRUE, msg |-> FileDoesNotExist, data |-> <<>>, reads |-> 0]
    ELSE IF s.strictSizeLimit # Undefined /\ offset > s.strictSizeLimit
    THEN [s |-> s, err |-> TRUE, msg |-> ReadExceedsStrict, data |-> <<>>, reads |-> 0]
    ELSE readNext(s, size, offset, 0, alloc(size), 0)

\* _read(req): req.offset, req.size
_read(s, offset, size) ==
    IF ~s.fileExists
    THEN [s |-> s, err |-> TRUE, msg |-> FileDoesNotExist, data |-> <<>>, reads |-> 0]
    ELSE IF s.strictSizeLimit # Undefined /\ offset + size > s.strictSizeLimit
    THEN [s |-> s, err |-> TRUE, msg |-> ReadExceedsStrict, data |-> <<>>, reads |-> 0]
    ELSE readNext(s, size, offset, 0, alloc(size), 0)

\* a faulty updateSize: the size becomes the end of the write, without the
\* Math.max against the current size
updateSize_end(s, reqOffset, data) ==
    [s EXCEPT !.size = reqOffset + Len(data)]

\* the completion branch of writeNext: "Update overlay size"
updateSize(s, reqOffset, data) ==
    [s EXCEPT !.size = Max(@, reqOffset + Len(data))]

\* the callback that writeNext gives _getOrCreatePage, for a page that s
\* holds: chunk is req.data.subarray(bytesWritten, bytesWritten + bytesToWrite)
writePage(s, pageIndex, pageOffset, chunk) ==
    LET page == s.pages[pageIndex]
        grown ==
            IF Len(page.data) < pageOffset + Len(chunk)
            THEN bufset(alloc(pageOffset + Len(chunk)), page.data, 0)
            ELSE page.data
        marked == [s EXCEPT
                      !.pages[pageIndex] =
                          [data |-> bufset(grown, chunk, pageOffset),
                           modified |-> TRUE],
                      !.modifiedPages = @ \cup {pageIndex}]
    IN  IF pageIndex \notin marked.pinnedPages
        THEN _touchPage(marked, pageIndex)
        ELSE marked

\* writeNext of _write: [s, err, msg]
RECURSIVE writeNext(_, _, _, _, _)
writeNext(s, reqOffset, data, offset, bytesWritten) ==
    IF bytesWritten >= Len(data)
    THEN [s |-> updateSize(s, reqOffset, data), err |-> FALSE, msg |-> NoError]
    ELSE
      LET pageIndex == offset \div pageSize
          pageOffset == offset % pageSize
          bytesToWrite == Min(pageSize - pageOffset, Len(data) - bytesWritten)
          got == _getOrCreatePage(s, pageIndex)
          touched ==
              writePage(got.s, pageIndex, pageOffset,
                        subarray(data, bytesWritten, bytesWritten + bytesToWrite))
      IN  IF s.bitmask.present /\ ~_isBitSet(s, offset, bytesToWrite)
          THEN writeNext(s, reqOffset, data,
                         offset + bytesToWrite, bytesWritten + bytesToWrite)
          ELSE IF got.err
               THEN [s |-> got.s, err |-> TRUE, msg |-> CouldNotSatisfyLength]
          ELSE writeNext(touched, reqOffset, data,
                         offset + bytesToWrite, bytesWritten + bytesToWrite)

\* a faulty _write: the page loop starts at offset 0 instead of req.offset
_write_offsetZero(s, offset, data) ==
    IF s.strictSizeLimit # Undefined /\ offset + Len(data) > s.strictSizeLimit
    THEN [s |-> s, err |-> TRUE, msg |-> WriteExceedsStrict]
    ELSE writeNext(s, offset, data, 0, 0)

\* _write(req): req.offset, req.data
_write(s, offset, data) ==
    IF s.strictSizeLimit # Undefined /\ offset + Len(data) > s.strictSizeLimit
    THEN [s |-> s, err |-> TRUE, msg |-> WriteExceedsStrict]
    ELSE writeNext(s, offset, data, offset, 0)

\* the callback that deleteNext gives _getPage, for a page that s holds
deletePage(s, pageIndex, pageOffset, bytesToDelete) ==
    [s EXCEPT
        !.pages[pageIndex] =
            [data |-> fill0(@.data, pageOffset, pageOffset + bytesToDelete),
             modified |-> TRUE],
        !.modifiedPages = @ \cup {pageIndex}]

\* deleteNext of _del: [s, err].  A page that cannot be loaded is skipped.
RECURSIVE deleteNext(_, _, _, _, _)
deleteNext(s, reqOffset, end, offset, bytesDeleted) ==
    IF bytesDeleted >= end - reqOffset
    THEN [s |-> IF end = s.size THEN [s EXCEPT !.size = reqOffset] ELSE s,
          err |-> FALSE]
    ELSE
      LET pageIndex == offset \div pageSize
          pageOffset == offset % pageSize
          bytesToDelete == Min(pageSize - pageOffset, end - offset)
          got == _getPage(s, pageIndex)
          zeroed == deletePage(got.s, pageIndex, pageOffset, bytesToDelete)
      IN  deleteNext(IF got.err THEN got.s ELSE zeroed, reqOffset, end,
                     offset + bytesToDelete, bytesDeleted + bytesToDelete)

\* _del(req): req.offset, req.size
_del(s, offset, size) ==
    LET end == IF size = Infinity \/ offset + size > s.size
               THEN s.size
               ELSE offset + size
    IN  deleteNext(s, offset, end, offset, 0)

\* the body of _truncate's removal loop: page index leaves every structure
dropPage(s, index) ==
    LET dropped == [s EXCEPT !.pages = PagesDelete(@, index)]
        unlisted == LruDelete(dropped, index)
    IN  [unlisted EXCEPT !.modifiedPages = @ \ {index},
                         !.pinnedPages = @ \ {index}]

\* for (const index of pagesToRemove) { ... }
RECURSIVE removePages(_, _)
removePages(s, pagesToRemove) ==
    IF pagesToRemove = {} THEN s
    ELSE LET index == CHOOSE i \in pagesToRemove : \A j \in pagesToRemove : i <= j
         IN  removePages(dropPage(s, index), pagesToRemove \ {index})

\* a faulty truncateLastPage: the page is marked modified and its data is
\* left at full length
truncateLastPage_keep(s, pageIndex, newPageSize) ==
    [s EXCEPT !.pages[pageIndex] = [data |-> @.data, modified |-> TRUE],
              !.modifiedPages = @ \cup {pageIndex}]

\* "Truncate the last page's data"
truncateLastPage(s, pageIndex, newPageSize) ==
    [s EXCEPT !.pages[pageIndex] =
                  [data |-> subarray(@.data, 0, newPageSize), modified |-> TRUE],
              !.modifiedPages = @ \cup {pageIndex}]

\* _truncate(req): req.offset is the new size
_truncate(s, newSize) ==
    IF newSize > s.size
    THEN LET bytesToGrow == newSize - s.size
             w == _write(s, s.size, alloc(bytesToGrow))
         IN  IF w.err THEN w
             ELSE [s |-> [w.s EXCEPT !.size = newSize], err |-> FALSE]
    ELSE
      LET pageIndex == newSize \div pageSize
          newPageSize == newSize % pageSize
          resized == [s EXCEPT !.size = newSize]
          kept == removePages(resized,
                              {index \in DOMAIN s.pages : index > pageIndex})
          adjusted ==
              IF pageIndex \in DOMAIN kept.pages
              THEN IF newPageSize = 0
                   THEN dropPage(kept, pageIndex)
                   ELSE truncateLastPage(kept, pageIndex, newPageSize)
              ELSE kept
      IN  [s |-> [adjusted EXCEPT !.underlying = UnderlyingTruncate(@, newSize)],
           err |-> FALSE]

\* a faulty evictNext: a page whose flush failed is kept
evictOne_keepUnflushed(s, pageIndex, flushBeforeEvict, failAt) ==
    IF flushBeforeEvict
    THEN LET flushed == flush(s, pageIndex * pageSize, pageSize, failAt)
         IN  IF flushed.err THEN flushed.s ELSE _evictPage(flushed.s, pageIndex)
    ELSE _evictPage(s, pageIndex)

\* what evictNext does with one page: the flush, whose error is logged, and
\* _evictPage
evictOne(s, pageIndex, flushBeforeEvict, failAt) ==
    IF flushBeforeEvict
    THEN _evictPage(flush(s, pageIndex * pageSize, pageSize, failAt).s, pageIndex)
    ELSE _evictPage(s, pageIndex)

\* the error evict calls back with: evictNext ends with callback(null),
\* whatever the flushes called back with
evictCallback(flushErr) == NoError

\* evictNext of evict(percent, flushBeforeEvict, callback): pages is the list
\* of unpinned keys of this._lru, least recently used first.  failAt is the
\* page whose flush fails; evict logs the error and goes on.
RECURSIVE evictNext(_, _, _, _, _, _)
evictNext(s, pages, pagesToEvict, evictIndex, flushBeforeEvict, failAt) ==
    IF evictIndex >= pagesToEvict \/ evictIndex >= Len(pages) THEN s
    ELSE evictNext(evictOne(s, pages[evictIndex + 1], flushBeforeEvict, failAt),
                   pages, pagesToEvict, evictIndex + 1, flushBeforeEvict, failAt)

Reverse(l) == [i \in 1..Len(l) |-> l[Len(l) + 1 - i]]

\* evict(percent, flushBeforeEvict, callback); percent is given in hundredths
evict(s, percent, flushBeforeEvict, failAt) ==
    LET totalPages == Len(s.lru)
        pagesToEvict == (totalPages * percent + 99) \div 100
        pages == Reverse(SelectSeq(s.lru, LAMBDA index : index \notin s.pinnedPages))
    IN  evictNext(s, pages, pagesToEvict, 0, flushBeforeEvict, failAt)

\* the page indices of pin(offset, size) and unpin(offset, size)
PageRange(offset, size) ==
    (offset \div pageSize)..((offset + size - 1) \div pageSize)

\* a faulty pin: only the page of offset is pinned, not the pages up to the
\* one of offset + size - 1
pin_startPage(s, offset, size) ==
    [s EXCEPT !.pinnedPages = @ \cup {offset \div pageSize}]

\* pin(offset, size)
pin(s, offset, size) ==
    [s EXCEPT !.pinnedPages = @ \cup PageRange(offset, size)]

\* unpin(offset, size)
unpin(s, offset, size) ==
    [s EXCEPT !.pinnedPages = @ \ PageRange(offset, size)]

\* setBitmask(bitmaskBuffer)
setBitmask(s, bitmaskBuffer) ==
    [s EXCEPT !.bitmask = [present |-> TRUE, buf |-> bitmaskBuffer]]

\* clearBitmask()
clearBitmask(s) == [s EXCEPT !.bitmask = NoBitmask]

\* ------------------------------------------------------------------ state
VARIABLES
    pages,            \* this._pages
    lru,              \* this._lru
    pinnedPages,      \* this._pinnedPages
    modifiedPages,    \* this._modifiedPages
    size,             \* this._size
    bitmask,          \* this._bitmask
    fileExists,       \* this._fileExists
    strictSizeLimit,  \* this._strictSizeLimit
    opened,           \* this.opened
    opening,          \* this.opening
    closed,           \* this.closed
    unlinked,         \* this.unlinked
    closeReq,         \* the close request in flight: how far _close has come
    openReq,          \* the open request in flight: how far _open has come
    ops,              \* the read, write, del and flush requests in flight
    issued,           \* how many requests the caller has issued while
                      \* requests were taken one page at a time
    underlying        \* the bytes of this._underlying

vars == <<pages, lru, pinnedPages, modifiedPages, size, bitmask, fileExists,
          strictSizeLimit, opened, opening, closed, unlinked, closeReq,
          openReq, ops, issued, underlying>>

\* the store's fields as one record
Store ==
    [pages |-> pages, lru |-> lru, pinnedPages |-> pinnedPages,
     modifiedPages |-> modifiedPages, size |-> size, bitmask |-> bitmask,
     fileExists |-> fileExists, strictSizeLimit |-> strictSizeLimit,
     underlying |-> underlying]

\* the fields take the values of record s
Becomes(s) ==
    /\ pages' = s.pages
    /\ lru' = s.lru
    /\ pinnedPages' = s.pinnedPages
    /\ modifiedPages' = s.modifiedPages
    /\ size' = s.size
    /\ bitmask' = s.bitmask
    /\ fileExists' = s.fileExists
    /\ strictSizeLimit' = s.strictSizeLimit
    /\ underlying' = s.underlying

\* a caller's data: n bytes of value v
Data(n, v) == [i \in 1..n |-> v]

\* an underlying file that exists before the store is constructed: it ends
\* one byte into the second page
ExistingFile == Data(pageSize + 1, MaxByte)

\* the bitmask buffer callers install: one byte with only bit 0 set, so that
\* byte 0 of the store is writable and no other byte is
BitmaskBuffers == {<<1>>}

\* no close has been requested.  Of a close request:
\*   requested        _close(req) has run
\*   flushing         where the flush started by _close stands: "no" (not
\*                    started), "write" or "truncate" (that call of the
\*                    underlying storage is pending), "immediate"
\*                    (setImmediate(flushNext) is pending), "done" (the
\*                    flush has called back)
\*   index, end       pageIndex and end of _performFlush
\*   fails            the pending call of the flush calls back with an error
\*   flushed          the flush's callback: "no" (not yet), "ok", "err"
\*   underlyingClose  this._underlying.close: "no" (not invoked), "invoked",
\*                    "ok", "err" (called back without or with an error)
\*   callback         req.callback: "no" (not yet), "ok", "err"
\*   overlay          what read(i, 1) called back with, for every offset i
\*                    below the size, when _close ran
NoClose ==
    [requested |-> FALSE, flushing |-> "no", index |-> 0, end |-> 0,
     fails |-> FALSE, flushed |-> "no", underlyingClose |-> "no",
     callback |-> "no", overlay |-> <<>>]

\* no open is in flight and no operation waits for one.  Of an open
\* request:
\*   stage    the call of the underlying storage that _open waits for:
\*            "none", "open" or "stat"
\*   waiting  the operation that was issued before the store was opened
\*            and waits in _ensureOpen: "none" or its name
\*   served   what became of the last operation that waited: "no" (none
\*            has), "ran" (it ran when the open had succeeded), "failed"
\*            (it was called back with the error of the open)
\*   outcome  how the last _open ended: "none" (none has), "ok" (stat
\*            reported a size), "statError", "noStat" (the underlying
\*            storage has no stat method), "openError"
\*   reopened _open has run on the opened store
NoOpen ==
    [stage |-> "none", waiting |-> "none", served |-> "no",
     outcome |-> "none", reopened |-> FALSE]

\* ops holds the requests whose callback has not been taken yet, one per
\* slot.  A request runs one page at a time: between two pages it waits
\* for setImmediate or for a call of the underlying storage, and other
\* requests run meanwhile.
\*   kind    "none" (free slot), "read", "write", "del", "flush"
\*   offset  req.offset
\*   data    req.data of a write; the buffer of a read
\*   end     end of deleteNext and of flushNext
\*   at      offset of readNext, writeNext and deleteNext; the page index
\*           that flushNext takes next
\*   done    bytesRead, bytesWritten, bytesDeleted
\*   wait    what the request waits for: "immediate" (setImmediate),
\*           "load" (_underlying.read), "store" (_underlying.write),
\*           "truncate" (_underlying.truncate); "thrown" when an exception
\*           has left its handler.  A request whose callback has run
\*           ("called") leaves its slot.
\*   page    the page index of the call of the underlying storage
\*   got     of a load: "data" or "error", what _underlying.read calls back
\*           with; of a store: what became of the page object that
\*           flushNext holds: "absent" (it held none), "current" (_pages
\*           holds it), "staleDirty", "staleClean" (_pages dropped or
\*           replaced it, its modified flag being true or false)
\*   loaded  the bytes that _underlying.read calls back with
\*   behind  the request waits for setImmediate behind the other one's
\*   err     the callback received an error
\*   expect  of a read issued in the same turn as a write(o, d) before
\*           it: d
MaxOps == 2

\* the number of requests that are issued one page at a time
MaxIssued == 5

NoOp ==
    [kind |-> "none", offset |-> 0, data |-> <<>>, end |-> 0, at |-> 0,
     done |-> 0, wait |-> "none", page |-> 0, got |-> "none",
     loaded |-> <<>>, behind |-> FALSE, err |-> FALSE, expect |-> <<>>]

NoOps == [i \in 1..MaxOps |-> NoOp]

\* the constructor (lines 10-60) with opts.strictSizeEnforcement = limit,
\* over an empty or an existing underlying storage
Constructed(limit) ==
    /\ pages = <<>>
    /\ lru = <<>>
    /\ pinnedPages = {}
    /\ modifiedPages = {}
    /\ size = 0
    /\ bitmask = NoBitmask
    /\ fileExists = FALSE
    /\ strictSizeLimit = limit
    /\ opened = FALSE
    /\ opening = FALSE
    /\ closed = FALSE
    /\ unlinked = FALSE
    /\ closeReq = NoClose
    /\ openReq = NoOpen
    /\ ops = NoOps
    /\ issued = 0
    /\ underlying \in {<<>>, ExistingFile}

\* a store constructed without opts.strictSizeEnforcement
Init == Constructed(Undefined)

\* _open(req), run by random-access-storage before the first operation.
\* outcome: the underlying open fails, its stat fails, or both succeed.
Open(outcome) ==
    /\ ~opened /\ ~opening
    /\ IF outcome = "openError"
       THEN UNCHANGED <<size, fileExists, opened>>
       ELSE /\ fileExists' = TRUE
            /\ size' = IF outcome = "statError" THEN 0 ELSE Max(size, Len(underlying))
            /\ opened' = TRUE
    /\ opening' = FALSE
    /\ UNCHANGED <<pages, lru, pinnedPages, modifiedPages, bitmask,
                   strictSizeLimit, closed, unlinked, closeReq, openReq,
                   underlying>>
    /\ UNCHANGED <<ops, issued>>

\* read(offset, size, callback)
Read(offset, n) ==
    /\ opened
    /\ Becomes(_read(Store, offset, n).s)
    /\ UNCHANGED <<opened, opening, closed, unlinked, closeReq, openReq>>
    /\ UNCHANGED <<ops, issued>>

\* write(offset, data, callback)
Write(offset, data) ==
    /\ opened
    /\ Becomes(_write(Store, offset, data).s)
    /\ UNCHANGED <<opened, opening, closed, unlinked, closeReq, openReq>>
    /\ UNCHANGED <<ops, issued>>

\* del(offset, size, callback)
Del(offset, n) ==
    /\ opened
    /\ Becomes(_del(Store, offset, n).s)
    /\ UNCHANGED <<opened, opening, closed, unlinked, closeReq, openReq>>
    /\ UNCHANGED <<ops, issued>>

\* truncate(offset, callback)
Truncate(newSize) ==
    /\ opened
    /\ Becomes(_truncate(Store, newSize).s)
    /\ UNCHANGED <<opened, opening, closed, unlinked, closeReq, openReq>>
    /\ UNCHANGED <<ops, issued>>

\* flush(offset, size, callback) over an underlying storage whose writes
\* succeed
Flush(offset, n) ==
    /\ opened
    /\ Becomes(flush(Store, offset, n, Undefined).s)
    /\ UNCHANGED <<opened, opening, closed, unlinked, closeReq, openReq>>
    /\ UNCHANGED <<ops, issued>>

\* evict(percent, flushBeforeEvict, callback) over an underlying storage
\* whose writes succeed
Evict(percent, flushBeforeEvict) ==
    /\ opened
    /\ Becomes(evict(Store, percent, flushBeforeEvict, Undefined))
    /\ UNCHANGED <<opened, opening, closed, unlinked, closeReq, openReq>>
    /\ UNCHANGED <<ops, issued>>

\* pin(offset, size)
Pin(offset, n) ==
    /\ Becomes(pin(Store, offset, n))
    /\ UNCHANGED <<opened, opening, closed, unlinked, closeReq, openReq>>
    /\ UNCHANGED <<ops, issued>>

\* unpin(offset, size)
Unpin(offset, n) ==
    /\ Becomes(unpin(Store, offset, n))
    /\ UNCHANGED <<opened, opening, closed, unlinked, closeReq, openReq>>
    /\ UNCHANGED <<ops, issued>>

\* setBitmask(bitmaskBuffer)
SetBitmask(buf) ==
    /\ Becomes(setBitmask(Store, buf))
    /\ UNCHANGED <<opened, opening, closed, unlinked, closeReq, openReq>>
    /\ UNCHANGED <<ops, issued>>

\* clearBitmask()
ClearBitmask ==
    /\ Becomes(clearBitmask(Store))
    /\ UNCHANGED <<opened, opening, closed, unlinked, closeReq, openReq>>
    /\ UNCHANGED <<ops, issued>>

\* ----------------------------------------------------------- callers' inputs
Offsets == 0..(MaxAddr - 1)

\* read(offset, size): every range of the address space
ReadInputs ==
    {r \in Offsets \X (0..MaxAddr) : r[1] + r[2] <= MaxAddr}

\* the reads the callers issue: they touch the first page, the second page,
\* and both (a read changes the store only through the pages it touches)
ReadSteps == {<<0, 1>>, <<pageSize, 1>>, <<pageSize - 1, 2>>}

\* write(offset, data): nothing, one byte, a whole page's length, and one
\* byte more than a page, of a non-zero value, at every offset
WriteInputs ==
    {w \in Offsets \X {Data(n, v) : n \in {0, 1, pageSize, pageSize + 1},
                                    v \in 1..MaxByte} :
        w[1] + Len(w[2]) <= MaxAddr}

\* del(offset, size): one byte or everything from offset on
DelInputs == (0..MaxAddr) \X {1, Infinity}

\* truncate(offset)
TruncateInputs == 0..MaxAddr

\* flush(offset, size): one byte, a page's length, everything
FlushInputs == Offsets \X {1, pageSize, MaxAddr}

\* evict(percent, flushBeforeEvict), percent in hundredths
EvictInputs == {0, 50, 100} \X BOOLEAN

\* pin and unpin ranges: the first page, a range across the first page
\* boundary, the second page
PinRanges == {<<0, 1>>, <<1, pageSize>>, <<pageSize, pageSize>>}

Next ==
    \/ \E outcome \in {"ok", "openError", "statError"} : Open(outcome)
    \/ \E r \in ReadSteps : Read(r[1], r[2])
    \/ \E w \in WriteInputs : Write(w[1], w[2])
    \/ \E d \in DelInputs : Del(d[1], d[2])
    \/ \E newSize \in TruncateInputs : Truncate(newSize)
    \/ \E f \in FlushInputs : Flush(f[1], f[2])
    \/ \E e \in EvictInputs : Evict(e[1], e[2])
    \/ \E r \in PinRanges : Pin(r[1], r[2])
    \/ \E r \in PinRanges : Unpin(r[1], r[2])
    \/ \E buf \in BitmaskBuffers : SetBitmask(buf)
    \/ ClearBitmask

Spec == Init /\ [][Next]_vars

\* ------------------------------------------------------------ observations
\* what read(i, 1) calls back with in store s: the byte, or ReadFails when
\* the callback receives an error
ReadFails == 0 - 1

ByteAt(s, i) ==
    LET r == _read(s, i, 1)
    IN  IF r.err THEN ReadFails ELSE r.data[1]

\* a byte that a read returned in store s reads the same in store t
ReadsAsBefore(s, t, i) ==
    ByteAt(s, i) # ReadFails => ByteAt(t, i) = ByteAt(s, i)

\* what the underlying storage holds at offset i
NotStored == 0 - 2

StoredAt(u, i) == IF i < Len(u) THEN u[i + 1] ELSE NotStored

\* ------------------------------------------------------------------ claims

\* C1 (read-your-writes): with no bitmask installed, whenever write(o, d)
\* completes successfully, the read(o, len(d)) that follows it succeeds and
\* returns exactly d, whatever the history.
ReadYourWrites ==
    (opened /\ ~bitmask.present) =>
        \A w \in WriteInputs :
            LET written == _write(Store, w[1], w[2])
                readBack == _read(written.s, w[1], Len(w[2]))
            IN  ~written.err => (~readBack.err /\ readBack.data = w[2])

\* C1 reached: a write across a page boundary succeeds on a store that holds
\* neither page, over an underlying storage with bytes for both, and the
\* read that follows returns the data
ReadYourWritesReached ==
    /\ opened /\ ~bitmask.present
    /\ pages = <<>> /\ Len(underlying) > pageSize /\ size > pageSize
    /\ \E w \in WriteInputs :
          LET written == _write(Store, w[1], w[2])
          IN  /\ Len(w[2]) > pageSize
              /\ ~written.err
              /\ _read(written.s, w[1], Len(w[2])).data = w[2]

\* C2 (write frame): whenever write(o, d) completes successfully, every byte
\* outside [o, o + len(d)) that a read returned before the write reads the
\* same after it.
WriteFrame ==
    opened =>
        \A w \in WriteInputs :
            LET written == _write(Store, w[1], w[2])
            IN  ~written.err =>
                    \A i \in Offsets :
                        (i < w[1] \/ i >= w[1] + Len(w[2])) =>
                            ReadsAsBefore(Store, written.s, i)

\* C3 (size through writes): whenever write(o, d) completes successfully,
\* size is the larger of the size before the write and o + len(d).
WriteSize ==
    opened =>
        \A w \in WriteInputs :
            LET written == _write(Store, w[1], w[2])
            IN  ~written.err =>
                    written.s.size = Max(size, w[1] + Len(w[2]))

\* C3 reached: a successful write that ends below the size leaves the size,
\* and a successful write that ends above it raises it
WriteSizeReached ==
    /\ opened
    /\ \E w \in WriteInputs :
          /\ w[1] + Len(w[2]) < size
          /\ Len(w[2]) > 0
          /\ ~_write(Store, w[1], w[2]).err
    /\ \E w \in WriteInputs :
          /\ w[1] + Len(w[2]) > size
          /\ ~_write(Store, w[1], w[2]).err
          /\ _write(Store, w[1], w[2]).s.size = w[1] + Len(w[2])

\* C4 (flush commits): whenever flush(o, n) completes successfully, every
\* byte of [o, min(o + n, size)) that the overlay returns for a read is the
\* byte the underlying storage holds at the same offset.
FlushCommits ==
    opened =>
        \A f \in FlushInputs :
            LET flushed == flush(Store, f[1], f[2], Undefined)
            IN  ~flushed.err =>
                    \A i \in Offsets :
                        (i >= f[1] /\ i < Min(f[1] + f[2], flushed.s.size)
                            /\ ByteAt(flushed.s, i) # ReadFails) =>
                            StoredAt(flushed.s.underlying, i) = ByteAt(flushed.s, i)

\* C4 wherever the underlying storage is long enough to hold the byte: the
\* stored byte is the byte the overlay returns
FlushCommitsStored ==
    opened =>
        \A f \in FlushInputs :
            LET flushed == flush(Store, f[1], f[2], Undefined)
            IN  ~flushed.err =>
                    \A i \in Offsets :
                        (i >= f[1] /\ i < Min(f[1] + f[2], flushed.s.size)
                            /\ i < Len(flushed.s.underlying)
                            /\ ByteAt(flushed.s, i) # ReadFails) =>
                            StoredAt(flushed.s.underlying, i) = ByteAt(flushed.s, i)

\* C5 (flush is transparent): whenever flush(o, n) completes, size is
\* unchanged and every byte that a read returned before the flush reads the
\* same after it, resident or not.
FlushTransparent ==
    opened =>
        \A f \in FlushInputs :
            LET flushed == flush(Store, f[1], f[2], Undefined)
            IN  /\ flushed.s.size = size
                /\ \A i \in Offsets : ReadsAsBefore(Store, flushed.s, i)

\* C6 (pin immunity): when the pages of [o, o + s) are resident and
\* pin(o, s) is called, an evict call with any arguments leaves the pin set
\* and every page of the range as they were, so that the same holds for the
\* next evict call: the pages are still resident, and read(o, s) returns the
\* bytes it returned before without a read of the underlying storage.
PinImmunity ==
    opened =>
        \A r \in PinRanges, e \in EvictInputs :
            LET pinned == pin(Store, r[1], r[2])
                before == _read(pinned, r[1], r[2])
                evicted == evict(pinned, e[1], e[2], Undefined)
                after == _read(evicted, r[1], r[2])
            IN  PageRange(r[1], r[2]) \subseteq DOMAIN pages =>
                    /\ evicted.pinnedPages = pinned.pinnedPages
                    /\ \A p \in PageRange(r[1], r[2]) :
                          /\ p \in DOMAIN evicted.pages
                          /\ evicted.pages[p].data = pinned.pages[p].data
                    /\ ~after.err
                    /\ after.data = before.data
                    /\ after.reads = 0

\* C6 reached: the page the LRU lists is written, dirty and pinned; an evict
\* of everything, flushing first, leaves it resident with its bytes, and
\* would remove it if it were not pinned
PinImmunityReached ==
    /\ opened
    /\ \E p \in DOMAIN pages :
          /\ lru = <<p>>
          /\ p \in pinnedPages /\ p \in modifiedPages
          /\ \E i \in 1..Len(pages[p].data) : pages[p].data[i] # 0
          /\ LET evicted == evict(Store, 100, TRUE, Undefined)
                 unpinned == unpin(Store, p * pageSize, 1)
             IN  /\ p \in DOMAIN evicted.pages
                 /\ evicted.pages[p].data = pages[p].data
                 /\ p \notin DOMAIN evict(unpinned, 100, TRUE, Undefined).pages

\* C7 (residency bound): with no page pinned, the page map holds at most
\* maxPages pages.
ResidencyBound ==
    pinnedPages = {} => Cardinality(DOMAIN pages) <= maxPages

\* in store t, reached from store s by one operation, every unpinned dirty
\* page that the LRU listed in s and no longer lists in t has left the page
\* map and the dirty set, and the underlying storage holds its bytes
DroppedPagesFlushed(s, t) ==
    \A p \in SeqToSet(s.lru) :
        (/\ ~LruHas(t.lru, p)
         /\ p \in DOMAIN s.pages
         /\ p \in s.modifiedPages
         /\ p \notin s.pinnedPages) =>
            /\ p \notin DOMAIN t.pages
            /\ p \notin t.modifiedPages
            /\ \A i \in 0..(pageSize - 1) :
                  p * pageSize + i < s.size =>
                      StoredAt(t.underlying, p * pageSize + i)
                          = ByteAt(s, p * pageSize + i)

\* C8 (flush on LRU drop): with autoFlushOnEvict, whenever a write or a read
\* loads a page and thereby makes the LRU drop an unpinned dirty page, the
\* dropped page has been flushed to the underlying storage and removed from
\* the page map and the dirty set when the operation completes.
FlushOnLruDrop ==
    (opened /\ autoFlushOnEvict) =>
        /\ \A w \in WriteInputs :
              LET written == _write(Store, w[1], w[2])
              IN  ~written.err => DroppedPagesFlushed(Store, written.s)
        /\ \A r \in ReadInputs :
              LET got == _read(Store, r[1], r[2])
              IN  ~got.err => DroppedPagesFlushed(Store, got.s)

\* C9 (truncate-shrink): whenever truncate(L) with L <= size completes
\* successfully, size is L, no resident page has an index above
\* floor(L / pageSize), every byte of [0, L) that a read returned before
\* reads the same, and read(L, k) returns k zero bytes.
TruncateShrink ==
    (opened /\ strictSizeLimit = Undefined) =>
        \A L \in TruncateInputs :
            LET truncated == _truncate(Store, L)
            IN  (L <= size /\ ~truncated.err) =>
                    /\ truncated.s.size = L
                    /\ \A p \in DOMAIN truncated.s.pages : p <= L \div pageSize
                    /\ \A i \in 0..(L - 1) : ReadsAsBefore(Store, truncated.s, i)
                    /\ \A k \in 0..(pageSize + 1) :
                          LET beyond == _read(truncated.s, L, k)
                          IN  ~beyond.err /\ beyond.data = alloc(k)

\* C9 reached: a truncate inside a resident page that holds non-zero bytes
\* on both sides of the new size, with a resident page above it
TruncateShrinkReached ==
    /\ opened /\ strictSizeLimit = Undefined
    /\ \E L \in TruncateInputs :
          LET p == L \div pageSize
          IN  /\ L < size /\ L % pageSize # 0
              /\ p \in DOMAIN pages /\ (p + 1) \in DOMAIN pages
              /\ Len(pages[p].data) = pageSize
              /\ \A i \in 1..pageSize : pages[p].data[i] # 0
              /\ ~_truncate(Store, L).err
              /\ ByteAt(Store, L) # 0
              /\ ByteAt(_truncate(Store, L).s, L) = 0

\* C10 (truncate-grow): whenever truncate(L) with L > size completes
\* successfully, size is L, every byte of [size before, L) reads as zero,
\* and every byte below the size before that a read returned reads the same.
TruncateGrow ==
    opened =>
        \A L \in TruncateInputs :
            LET truncated == _truncate(Store, L)
            IN  (L > size /\ ~truncated.err) =>
                    /\ truncated.s.size = L
                    /\ \A i \in size..(L - 1) : ByteAt(truncated.s, i) = 0
                    /\ \A i \in 0..(size - 1) : ReadsAsBefore(Store, truncated.s, i)

\* C10 with no bitmask installed: truncate-grow zero-fills and keeps the
\* bytes below the old size
TruncateGrowNoBitmask == ~bitmask.present => TruncateGrow

\* del(o, s) is a trailing delete in store st: it reaches the end of the data
IsTrailing(st, o, s) == s = Infinity \/ o + s >= st.size

\* C11 (trailing delete): whenever a trailing del(o, s) completes
\* successfully on a store without a strict limit, size is o, every byte of
\* [0, o) that a read returned before reads the same, and read(o, k) returns
\* k zero bytes.
TrailingDelete ==
    (opened /\ strictSizeLimit = Undefined) =>
        \A d \in DelInputs :
            LET deleted == _del(Store, d[1], d[2])
            IN  (IsTrailing(Store, d[1], d[2]) /\ ~deleted.err) =>
                    /\ deleted.s.size = d[1]
                    /\ \A i \in 0..(d[1] - 1) : ReadsAsBefore(Store, deleted.s, i)
                    /\ \A k \in 0..(pageSize + 1) :
                          LET beyond == _read(deleted.s, d[1], k)
                          IN  ~beyond.err /\ beyond.data = alloc(k)

\* C11 for a del that starts inside the data, wherever the read of the
\* deleted range succeeds: the size, the bytes below o and the zeros
TrailingDeleteReadable ==
    (opened /\ strictSizeLimit = Undefined) =>
        \A d \in DelInputs :
            LET deleted == _del(Store, d[1], d[2])
            IN  (IsTrailing(Store, d[1], d[2]) /\ d[1] <= size /\ ~deleted.err) =>
                    /\ deleted.s.size = d[1]
                    /\ \A i \in 0..(d[1] - 1) : ReadsAsBefore(Store, deleted.s, i)
                    /\ \A k \in 0..(pageSize + 1) :
                          LET beyond == _read(deleted.s, d[1], k)
                          IN  ~beyond.err => beyond.data = alloc(k)

\* what C12 says of del(o, s) taking store st to store dt
InteriorDeleteEffect(st, dt, o, s) ==
    /\ dt.size = st.size
    /\ \A i \in o..(o + s - 1) : ByteAt(dt, i) = 0
    /\ \A i \in Offsets : (i < o \/ i >= o + s) => ReadsAsBefore(st, dt, i)
    /\ \A p \in PageRange(o, s) :
          p \in DOMAIN dt.pages /\ dt.pages[p].modified /\ p \in dt.modifiedPages

\* C12 (interior delete): whenever del(o, s) with o + s < size completes
\* successfully, every byte of [o, o + s) reads as zero, every byte outside
\* that a read returned before reads the same, size is unchanged, and every
\* page overlapping [o, o + s) is resident and dirty.
InteriorDelete ==
    opened =>
        \A d \in DelInputs :
            LET deleted == _del(Store, d[1], d[2])
            IN  (d[2] # Infinity /\ d[1] + d[2] < size /\ ~deleted.err) =>
                    InteriorDeleteEffect(Store, deleted.s, d[1], d[2])

\* C12 wherever the del could load every page of its range
InteriorDeleteLoaded ==
    opened =>
        \A d \in DelInputs :
            LET deleted == _del(Store, d[1], d[2])
            IN  (d[2] # Infinity /\ d[1] + d[2] < size /\ ~deleted.err
                    /\ PageRange(d[1], d[2]) \subseteq DOMAIN deleted.s.pages) =>
                    InteriorDeleteEffect(Store, deleted.s, d[1], d[2])

\* bit i of the installed bitmask is 1 (a bit beyond its length counts as 0)
BitOf(st, i) == _isBitSet(st, i, 1)

\* the part of write(o, d) that falls into page p: [lo, hi)
SubrangeLo(o, p) == Max(o, p * pageSize)

SubrangeHi(o, d, p) == Min(o + Len(d), (p + 1) * pageSize)

\* C13 (bitmask filter at byte granularity): with a bitmask installed,
\* whenever write(o, d) completes, every byte of [o, o + len(d)) whose bit is
\* 1 reads as the written value and every byte whose bit is 0 reads as it
\* did before.
BitmaskFilter ==
    (opened /\ bitmask.present) =>
        \A w \in WriteInputs :
            LET written == _write(Store, w[1], w[2])
            IN  ~written.err =>
                    \A i \in w[1]..(w[1] + Len(w[2]) - 1) :
                        IF BitOf(Store, i)
                        THEN ByteAt(written.s, i) = w[2][i - w[1] + 1]
                        ELSE ReadsAsBefore(Store, written.s, i)

\* C13 at the granularity of the write's per-page subranges: the bytes of a
\* subrange whose bits are all 1 read as the written values, and the page of
\* a subrange with a 0 bit is left as it was
BitmaskFilterSubrange ==
    (opened /\ bitmask.present) =>
        \A w \in WriteInputs :
            LET written == _write(Store, w[1], w[2])
            IN  ~written.err =>
                    \A p \in PageRange(w[1], Len(w[2])) :
                        LET lo == SubrangeLo(w[1], p)
                            hi == SubrangeHi(w[1], w[2], p)
                        IN  IF _isBitSet(Store, lo, hi - lo)
                            THEN \A i \in lo..(hi - 1) :
                                    ByteAt(written.s, i) = w[2][i - w[1] + 1]
                            ELSE IF p \in DOMAIN pages
                                 THEN /\ p \in DOMAIN written.s.pages
                                      /\ written.s.pages[p] = pages[p]
                                 ELSE p \notin DOMAIN written.s.pages

\* the pages of write(o, d) whose subrange the bitmask of store st accepts
AcceptedPages(st, o, d) ==
    {p \in PageRange(o, Len(d)) :
        _isBitSet(st, SubrangeLo(o, p), SubrangeHi(o, d, p) - SubrangeLo(o, p))}

\* the size after write(o, d) when only the accepted subranges count
SizeOfAccepted(st, o, d) ==
    LET ends == {SubrangeHi(o, d, p) : p \in AcceptedPages(st, o, d)}
    IN  IF ends = {} THEN st.size
        ELSE Max(st.size, CHOOSE e \in ends : \A f \in ends : f <= e)

\* page p and its dirty mark are in store dt as they are in store st
PageUntouched(st, dt, p) ==
    /\ (p \in DOMAIN dt.pages) = (p \in DOMAIN st.pages)
    /\ p \in DOMAIN st.pages => dt.pages[p] = st.pages[p]
    /\ (p \in dt.modifiedPages) = (p \in st.modifiedPages)

\* C14 (a rejected subrange has no effect): with a bitmask installed,
\* whenever write(o, d) meets a page subrange the bitmask rejects, the write
\* completes without error, the page of that subrange is neither created nor
\* modified nor marked dirty, and size grows only for the accepted
\* subranges; a write rejected on every page leaves size, the page map and
\* the dirty set as they were.
BitmaskSkip ==
    (opened /\ bitmask.present) =>
        \A w \in WriteInputs :
            LET written == _write(Store, w[1], w[2])
                rejected == PageRange(w[1], Len(w[2])) \ AcceptedPages(Store, w[1], w[2])
            IN  (Len(w[2]) > 0 /\ rejected # {}) =>
                    /\ AcceptedPages(Store, w[1], w[2]) = {} => ~written.err
                    /\ ~written.err =>
                          /\ \A p \in rejected : PageUntouched(Store, written.s, p)
                          /\ written.s.size = SizeOfAccepted(Store, w[1], w[2])
                    /\ (AcceptedPages(Store, w[1], w[2]) = {}) =>
                          /\ written.s.size = size
                          /\ written.s.pages = pages
                          /\ written.s.modifiedPages = modifiedPages

\* C14 without the size: the write rejected on every page completes without
\* error, and the page of a rejected subrange is neither created nor modified
\* nor marked dirty
BitmaskSkipPages ==
    (opened /\ bitmask.present) =>
        \A w \in WriteInputs :
            LET written == _write(Store, w[1], w[2])
                rejected == PageRange(w[1], Len(w[2])) \ AcceptedPages(Store, w[1], w[2])
            IN  (Len(w[2]) > 0 /\ rejected # {}) =>
                    /\ AcceptedPages(Store, w[1], w[2]) = {} => ~written.err
                    /\ ~written.err =>
                          \A p \in rejected : PageUntouched(Store, written.s, p)

\* the bitmask contents C15 is checked with: all zeros, and the callers' buffer
GateBuffers == {<<0>>} \cup BitmaskBuffers

\* two results of one operation agree on the error, the data and every field
\* of the store but the bitmask
SameOutcome(a, b) ==
    /\ a.err = b.err
    /\ [a.s EXCEPT !.bitmask = NoBitmask] = [b.s EXCEPT !.bitmask = NoBitmask]

\* read, del and truncate-shrink do the same with bitmask buf installed as
\* with none
GateIgnoredByReadDelShrink(buf) ==
    LET masked == setBitmask(Store, buf)
        plain == clearBitmask(Store)
    IN  /\ \A r \in ReadSteps :
              /\ SameOutcome(_read(masked, r[1], r[2]), _read(plain, r[1], r[2]))
              /\ _read(masked, r[1], r[2]).data = _read(plain, r[1], r[2]).data
        /\ \A d \in DelInputs :
              SameOutcome(_del(masked, d[1], d[2]), _del(plain, d[1], d[2]))
        /\ \A L \in TruncateInputs :
              L <= size => SameOutcome(_truncate(masked, L), _truncate(plain, L))

\* truncate-grow does the same with bitmask buf installed as with none
GateIgnoredByGrow(buf) ==
    \A L \in TruncateInputs :
        L > size => SameOutcome(_truncate(setBitmask(Store, buf), L),
                                _truncate(clearBitmask(Store), L))

\* after clearBitmask a write that completes is applied to every byte
AppliedAfterClear ==
    \A w \in WriteInputs :
        LET written == _write(clearBitmask(Store), w[1], w[2])
        IN  ~written.err => _read(written.s, w[1], Len(w[2])).data = w[2]

\* C15 (the bitmask gates writes only): read, del and truncate, growing or
\* shrinking, leave the same bytes, size, resident pages and dirty flags
\* whether or not a bitmask is installed, whatever its contents; after
\* clearBitmask every write is applied unconditionally.
BitmaskGatesWritesOnly ==
    opened =>
        /\ \A buf \in GateBuffers :
              GateIgnoredByReadDelShrink(buf) /\ GateIgnoredByGrow(buf)
        /\ AppliedAfterClear

\* C15 without truncate-grow
BitmaskIgnoredButByGrow ==
    opened =>
        /\ \A buf \in GateBuffers : GateIgnoredByReadDelShrink(buf)
        /\ AppliedAfterClear

\* ------------------------------------------------- the strict size limit
\* opts.strictSizeEnforcement of a store built with a limit: one byte into
\* the second page
strictSizeEnforcement == pageSize + 1

\* a store constructed with opts.strictSizeEnforcement
InitLimit == Constructed(strictSizeEnforcement)

NextLimit ==
    \/ \E outcome \in {"ok", "openError", "statError"} : Open(outcome)
    \/ \E r \in ReadInputs : Read(r[1], r[2])
    \/ \E w \in WriteInputs : Write(w[1], w[2])
    \/ \E d \in DelInputs : Del(d[1], d[2])
    \/ \E newSize \in TruncateInputs : Truncate(newSize)
    \/ \E f \in FlushInputs : Flush(f[1], f[2])
    \/ \E e \in EvictInputs : Evict(e[1], e[2])

SpecLimit == InitLimit /\ [][NextLimit]_vars

\* the messages that contain 'exceeds strict size enforcement'
ExceedsStrictSizeEnforcement == {ReadExceedsStrict, WriteExceedsStrict}

\* the page map with the pages' contents, the dirty set and the size of
\* store t are those of store s
SamePagesAndSize(s, t) ==
    /\ t.pages = s.pages
    /\ t.modifiedPages = s.modifiedPages
    /\ t.size = s.size

\* C16 (strict size limit): with strictSizeEnforcement = L, every read(o, n)
\* with o + n > L and every write(o, d) with o + len(d) > L fails with an
\* error whose message contains 'exceeds strict size enforcement' and leaves
\* the page map, the dirty set, the page contents and the size unchanged; a
\* read or write whose range ends at or before L is not rejected by this
\* check.
StrictSizeLimit ==
    (opened /\ strictSizeLimit # Undefined) =>
        /\ \A r \in ReadInputs :
              LET got == _read(Store, r[1], r[2])
              IN  IF r[1] + r[2] > strictSizeLimit
                  THEN /\ got.err
                       /\ got.msg \in ExceedsStrictSizeEnforcement
                       /\ SamePagesAndSize(Store, got.s)
                  ELSE got.msg \notin ExceedsStrictSizeEnforcement
        /\ \A w \in WriteInputs :
              LET written == _write(Store, w[1], w[2])
              IN  IF w[1] + Len(w[2]) > strictSizeLimit
                  THEN /\ written.err
                       /\ written.msg \in ExceedsStrictSizeEnforcement
                       /\ SamePagesAndSize(Store, written.s)
                  ELSE written.msg \notin ExceedsStrictSizeEnforcement

\* C16 reached: the store has been written up to its limit and holds a
\* dirty page; the one-byte read and write at the limit are rejected with
\* the strict-size message, those of the last byte below it succeed
StrictSizeLimitReached ==
    /\ opened
    /\ strictSizeLimit = strictSizeEnforcement
    /\ size = strictSizeLimit
    /\ modifiedPages # {}
    /\ _read(Store, size, 1).msg = ReadExceedsStrict
    /\ _write(Store, size, Data(1, MaxByte)).msg = WriteExceedsStrict
    /\ ~_read(Store, size - 1, 1).err
    /\ ~_write(Store, size - 1, Data(1, MaxByte)).err

\* ------------------------------------- StrictRandomAccessLayeredStorage
AttemptedToReadBeyond == "Attempted to read beyond the storage size."

\* a faulty override: the base read runs first and the size is checked when
\* it has called back
Strict_read_afterLoad(s, offset, n) ==
    LET got == _read(s, offset, n)
    IN  IF offset + n > s.size
        THEN [got EXCEPT !.err = TRUE, !.msg = AttemptedToReadBeyond, !.data = <<>>]
        ELSE got

\* StrictRandomAccessLayeredStorage._read(req), n bytes from req.offset: [s, err, msg, data, reads]
Strict_read(s, offset, n) ==
    IF offset + n > s.size
    THEN [s |-> s, err |-> TRUE, msg |-> AttemptedToReadBeyond,
          data |-> <<>>, reads |-> 0]
    ELSE _read(s, offset, n)

\* read(offset, size, callback) of a StrictRandomAccessLayeredStorage
StrictRead(offset, n) ==
    /\ opened
    /\ Becomes(Strict_read(Store, offset, n).s)
    /\ UNCHANGED <<opened, opening, closed, unlinked, closeReq, openReq>>
    /\ UNCHANGED <<ops, issued>>

NextStrict ==
    \/ \E outcome \in {"ok", "openError", "statError"} : Open(outcome)
    \/ \E r \in ReadInputs : StrictRead(r[1], r[2])
    \/ \E w \in WriteInputs : Write(w[1], w[2])
    \/ \E d \in DelInputs : Del(d[1], d[2])
    \/ \E newSize \in TruncateInputs : Truncate(newSize)
    \/ \E f \in FlushInputs : Flush(f[1], f[2])
    \/ \E e \in EvictInputs : Evict(e[1], e[2])

\* a StrictRandomAccessLayeredStorage constructed without
\* opts.strictSizeEnforcement
SpecStrict == Init /\ [][NextStrict]_vars

\* C17 (strict variant): on a StrictRandomAccessLayeredStorage, read(o, n)
\* with o + n greater than the current size fails with an error and issues
\* no page load: no read of the underlying storage is made and the page
\* map, the LRU order and the size are unchanged; a read with o + n <= size
\* behaves exactly like the read of the base store.
StrictVariantRead ==
    opened =>
        \A r \in ReadInputs :
            LET got == Strict_read(Store, r[1], r[2])
            IN  IF r[1] + r[2] > size
                THEN /\ got.err
                     /\ got.reads = 0
                     /\ got.s.underlying = underlying
                     /\ got.s.pages = pages
                     /\ got.s.lru = lru
                     /\ got.s.size = size
                ELSE got = _read(Store, r[1], r[2])

\* C17 reached: the last page of the store is not resident; the strict read
\* of that page and one byte past the size fails without a read of the
\* underlying storage, where the base read would have loaded the page, and
\* the strict read of the page up to the size loads it and succeeds
StrictVariantReadReached ==
    /\ opened
    /\ size > pageSize
    /\ size < MaxAddr
    /\ (size \div pageSize) \notin DOMAIN pages
    /\ LET o == (size \div pageSize) * pageSize
           past == Strict_read(Store, o, size - o + 1)
           upTo == Strict_read(Store, o, size - o)
       IN  /\ past.err /\ past.reads = 0
           /\ _read(Store, o, size - o + 1).reads > 0
           /\ ~upTo.err /\ upTo.reads > 0
           /\ (size \div pageSize) \in DOMAIN upTo.s.pages

\* ------------------------------------------- a layered store as a backend
\* opts.strictSizeEnforcement of the stores of a stack: unset, one byte
\* into the second page, the end of the first page
LayerLimits == {Undefined, strictSizeEnforcement, pageSize}

\* the constructor of an outer layered store with opts.strictSizeEnforcement
\* = opt whose underlyingStorage is store s: what it does to s (lines 26-28)
constructorOver(s, opt) ==
    [s EXCEPT !.strictSizeLimit = opt]

\* new RandomAccessLayeredStorage(this store, {strictSizeEnforcement: opt})
Layer(opt) ==
    /\ Becomes(constructorOver(Store, opt))
    /\ UNCHANGED <<opened, opening, closed, unlinked, closeReq, openReq>>
    /\ UNCHANGED <<ops, issued>>

\* the inner store of a stack is constructed with any of the limits
InitLayers == \E limit \in LayerLimits : Constructed(limit)

NextLayers ==
    \/ \E outcome \in {"ok", "openError", "statError"} : Open(outcome)
    \/ \E opt \in LayerLimits : Layer(opt)
    \/ \E r \in ReadInputs : Read(r[1], r[2])
    \/ \E w \in WriteInputs : Write(w[1], w[2])
    \/ \E d \in DelInputs : Del(d[1], d[2])
    \/ \E newSize \in TruncateInputs : Truncate(newSize)
    \/ \E f \in FlushInputs : Flush(f[1], f[2])
    \/ \E e \in EvictInputs : Evict(e[1], e[2])

SpecLayers == InitLayers /\ [][NextLayers]_vars

\* the reads and writes that store s rejects with the strict-size message
RejectedReads(s) ==
    {r \in ReadInputs : _read(s, r[1], r[2]).msg \in ExceedsStrictSizeEnforcement}

RejectedWrites(s) ==
    {w \in WriteInputs : _write(s, w[1], w[2]).msg \in ExceedsStrictSizeEnforcement}

\* C18 (each layer's strict limit is local): constructing a layered store on
\* top of this store never changes this store's strict size limit: whatever
\* the outer store's strictSizeEnforcement option is, this store rejects
\* the same reads and writes past its limit after the construction as
\* before, and accepts the same.
StrictLimitLocal ==
    \A opt \in LayerLimits :
        LET inner == constructorOver(Store, opt)
        IN  /\ inner.strictSizeLimit = strictSizeLimit
            /\ opened =>
                  /\ RejectedReads(inner) = RejectedReads(Store)
                  /\ RejectedWrites(inner) = RejectedWrites(Store)

\* the constructor of the outer store hands its own option to the inner
\* store: afterwards the inner store's limit is the outer store's option,
\* and it rejects exactly the reads and writes that end past that option
StrictLimitHandedDown ==
    \A opt \in LayerLimits :
        LET inner == constructorOver(Store, opt)
        IN  /\ inner.strictSizeLimit = opt
            /\ opened =>
                  /\ RejectedReads(inner) =
                        {r \in ReadInputs : opt # Undefined /\ r[1] + r[2] > opt}
                  /\ RejectedWrites(inner) =
                        {w \in WriteInputs : opt # Undefined /\ w[1] + Len(w[2]) > opt}

\* ------------------------------------------------------------------ close
\* opts.flushOnClose is left at its default
_flushOnClose == TRUE

\* finishClose of _close, over an underlying storage with a close method:
\* this._underlying.close is invoked
finishClose(c) ==
    [c EXCEPT !.underlyingClose = "invoked"]

\* a faulty callback of the flush: a flush error is handed to the caller
\* and the underlying storage is not closed
flushCallback_returnErr(c, err) ==
    IF err
    THEN [c EXCEPT !.flushing = "done", !.flushed = "err", !.callback = "err"]
    ELSE finishClose([c EXCEPT !.flushing = "done", !.flushed = "ok"])

\* the callback that _close hands to flush: an error is logged, and
\* finishClose runs in either case
flushCallback(c, err) ==
    finishClose([c EXCEPT !.flushing = "done",
                          !.flushed = IF err THEN "err" ELSE "ok"])

\* the write of page c.index by flushNext, and the clearing of the page's
\* dirty mark by its callback, at once
pageFlushed(s, c) ==
    LET pageOffset == c.index * pageSize
    IN  _performFlush(s, pageOffset, Min(c.end, pageOffset + pageSize) - pageOffset,
                      Undefined).s

\* one run of flushNext in the flush started by _close, up to the call of
\* the underlying storage it makes or to the flush's callback: [s, c].
\* fails: the call it makes will call back with an error; the underlying
\* storage takes the bytes of a successful call when the call is made.
closeFlushNext(s, c, fails) ==
    IF c.index > (c.end - 1) \div pageSize
    THEN IF s.size < c.end
         THEN [s |-> IF fails THEN s
                     ELSE [s EXCEPT !.underlying = UnderlyingTruncate(@, s.size)],
               c |-> [c EXCEPT !.flushing = "truncate", !.fails = fails]]
         ELSE [s |-> s, c |-> flushCallback(c, FALSE)]
    ELSE [s |-> IF fails THEN s
                ELSE [s EXCEPT !.underlying = pageFlushed(s, c).underlying],
          c |-> [c EXCEPT !.flushing = "write", !.fails = fails]]

\* a faulty proceed: finishClose runs when flush returns, not when it calls
\* back
proceed_noWait(s, c, fails) ==
    LET started == closeFlushNext(s, [c EXCEPT !.requested = TRUE, !.index = 0,
                                               !.end = Min(s.size, s.size)], fails)
    IN  [s |-> started.s, c |-> finishClose(started.c)]

\* proceed of _close: this.flush(0, this._size, callback), which runs
\* _performFlush(0, Math.min(size, this._size)) up to its first call of the
\* underlying storage; or finishClose at once
proceed(s, c, fails) ==
    IF _flushOnClose
    THEN closeFlushNext(s, [c EXCEPT !.requested = TRUE, !.index = 0,
                                     !.end = Min(s.size, s.size)], fails)
    ELSE [s |-> s, c |-> finishClose([c EXCEPT !.requested = TRUE])]

\* what read(i, 1) calls back with in store s, for every offset below the
\* size
OverlayBytes(s) == [i \in 1..s.size |-> ByteAt(s, i - 1)]

\* close(callback) on an open store: _close(req) up to its first call of
\* the underlying storage
Close(fails) ==
    /\ opened /\ ~closed /\ ~closeReq.requested
    /\ LET st == proceed(Store, closeReq, fails)
       IN  /\ Becomes(st.s)
           /\ closeReq' = [st.c EXCEPT !.overlay = OverlayBytes(Store)]
    /\ UNCHANGED <<opened, opening, closed, unlinked, openReq>>
    /\ UNCHANGED <<ops, issued>>

\* the pending write or truncate of the flush calls back: with an error the
\* flush calls back with it; after a write the page's dirty mark is cleared
\* and setImmediate(flushNext) is called; after the truncate the flush
\* calls back
FlushCallsBack ==
    /\ closeReq.flushing \in {"write", "truncate"}
    /\ IF closeReq.fails
       THEN /\ closeReq' = flushCallback(closeReq, TRUE)
            /\ Becomes(Store)
       ELSE IF closeReq.flushing = "truncate"
       THEN /\ closeReq' = flushCallback(closeReq, FALSE)
            /\ Becomes(Store)
       ELSE /\ closeReq' = [closeReq EXCEPT !.flushing = "immediate",
                                            !.index = @ + 1]
            /\ IF closeReq.index \in DOMAIN pages /\ pages[closeReq.index].modified
               THEN Becomes([Store EXCEPT
                        !.pages[closeReq.index].modified = FALSE,
                        !.modifiedPages = @ \ {closeReq.index}])
               ELSE Becomes(Store)
    /\ UNCHANGED <<opened, opening, closed, unlinked, openReq>>
    /\ UNCHANGED <<ops, issued>>

\* setImmediate runs flushNext
FlushNext(fails) ==
    /\ closeReq.flushing = "immediate"
    /\ LET st == closeFlushNext(Store, closeReq, fails)
       IN  Becomes(st.s) /\ closeReq' = st.c
    /\ UNCHANGED <<opened, opening, closed, unlinked, openReq>>
    /\ UNCHANGED <<ops, issued>>

\* this._underlying.close calls back: an error goes to the caller; without
\* one the store is closed and the caller is called back
UnderlyingCloseCallsBack(outcome) ==
    /\ closeReq.underlyingClose = "invoked"
    /\ IF outcome = "closeError"
       THEN /\ closeReq' = [closeReq EXCEPT !.underlyingClose = "err",
                                            !.callback = "err"]
            /\ UNCHANGED closed
       ELSE /\ closeReq' = [closeReq EXCEPT !.underlyingClose = "ok",
                                            !.callback = "ok"]
            /\ closed' = TRUE
    /\ Becomes(Store)
    /\ UNCHANGED <<opened, opening, unlinked, openReq>>
    /\ UNCHANGED <<ops, issued>>

\* random-access-storage runs no operation while a close is in flight or
\* after it; evict is a method of the class and runs at any time
NextClose ==
    \/ \E outcome \in {"ok", "openError", "statError"} : Open(outcome)
    \/ \E w \in WriteInputs : ~closeReq.requested /\ Write(w[1], w[2])
    \/ \E newSize \in TruncateInputs : ~closeReq.requested /\ Truncate(newSize)
    \/ \E e \in EvictInputs : ~closed /\ Evict(e[1], e[2])
    \/ \E fails \in BOOLEAN : Close(fails)
    \/ FlushCallsBack
    \/ \E fails \in BOOLEAN : FlushNext(fails)
    \/ \E outcome \in {"ok", "closeError"} : UnderlyingCloseCallsBack(outcome)

SpecClose == Init /\ [][NextClose]_vars

\* C19 (close ordering): with flushOnClose = true, the close of the
\* underlying storage is invoked only after the flush started by close has
\* finished (its last write, and final truncate if any, of the underlying
\* storage has called back), and the closed flag is set and the caller's
\* callback fires only after the close of the underlying storage has
\* completed.
CloseOrdering ==
    /\ closeReq.underlyingClose # "no" =>
          /\ closeReq.flushing = "done"
          /\ closeReq.flushed # "no"
    /\ closeReq.callback # "no" => closeReq.underlyingClose \in {"ok", "err"}
    /\ closed => closeReq.underlyingClose = "ok"

\* C19 reached: a close has completed whose flush wrote every page of the
\* store to the underlying storage, one write after the other
CloseOrderingReached ==
    /\ closed
    /\ closeReq.callback = "ok"
    /\ closeReq.flushed = "ok"
    /\ closeReq.index = NumPages
    /\ Len(underlying) > pageSize

\* C20 (close never fails because of a flush failure): with flushOnClose =
\* true, if the flush performed by close fails on a write of the
\* underlying storage, close still invokes the close of the underlying
\* storage and, when that succeeds, completes without error and sets
\* closed.
CloseDespiteFlushFailure ==
    closeReq.flushed = "err" =>
        /\ closeReq.underlyingClose # "no"
        /\ closeReq.underlyingClose = "ok" =>
              (closed /\ closeReq.callback = "ok")
        /\ closeReq.callback = "err" => closeReq.underlyingClose = "err"

\* C20 reached: the second write of the flush failed and left its page
\* dirty, the underlying storage closed, and close completed without error
CloseDespiteFlushFailureReached ==
    /\ closed
    /\ closeReq.flushed = "err"
    /\ closeReq.index = 1
    /\ closeReq.callback = "ok"
    /\ modifiedPages # {}

\* ---------------------------------------------------------- flush on close
\* close on a store with a history of writes, dels and truncates, over an
\* underlying storage whose writes succeed
NextFlushOnClose ==
    \/ \E outcome \in {"ok", "openError", "statError"} : Open(outcome)
    \/ \E w \in WriteInputs : ~closeReq.requested /\ Write(w[1], w[2])
    \/ \E d \in DelInputs : ~closeReq.requested /\ Del(d[1], d[2])
    \/ \E newSize \in TruncateInputs : ~closeReq.requested /\ Truncate(newSize)
    \/ Close(FALSE)
    \/ FlushCallsBack
    \/ FlushNext(FALSE)
    \/ \E outcome \in {"ok", "closeError"} : UnderlyingCloseCallsBack(outcome)

SpecFlushOnClose == Init /\ [][NextFlushOnClose]_vars

\* C21 (flush on close): with flushOnClose = true and an underlying storage
\* whose writes succeed, when close completes no resident page is dirty and
\* the underlying storage holds, for every offset below the size, the byte
\* the overlay returned when close was called, for every history of writes,
\* dels and truncates before the close.
FlushOnClose ==
    closed =>
        /\ \A p \in DOMAIN pages : ~pages[p].modified
        /\ modifiedPages = {}
        /\ \A i \in 0..(size - 1) :
              closeReq.overlay[i + 1] # ReadFails =>
                  StoredAt(underlying, i) = closeReq.overlay[i + 1]

\* when close completes, the pages that lie below the size are clean, and
\* the underlying storage holds every byte below the size that a resident
\* page holds, which is the byte the overlay returned when close was called
FlushOnCloseResident ==
    closed =>
        /\ \A p \in DOMAIN pages : p * pageSize < size => ~pages[p].modified
        /\ \A i \in 0..(size - 1) :
              ((i \div pageSize) \in DOMAIN pages
                  /\ i % pageSize < Len(pages[i \div pageSize].data)) =>
                  /\ StoredAt(underlying, i) =
                        pages[i \div pageSize].data[(i % pageSize) + 1]
                  /\ closeReq.overlay[i + 1] = StoredAt(underlying, i)

\* close on an existing file that was only opened: the flush writes zeros
\* over every byte the overlay returned
FlushOnCloseZeroes ==
    /\ closed
    /\ pages = <<>>
    /\ closeReq.overlay = ExistingFile
    /\ underlying = alloc(Len(ExistingFile))

\* ----------------------------------------------------------------- unlink
\* _unlink(req) on an open store: [s, err, unlinked].  supports: the
\* underlying storage has an unlink method; fails: that method calls back
\* with an error.  Without the method the caches are cleared: the dispose
\* hook that this._lru.clear() runs finds no page, this._pages being empty.
_unlink(s, supports, fails) ==
    IF supports
    THEN IF fails
         THEN [s |-> s, err |-> TRUE, unlinked |-> FALSE]
         ELSE [s |-> [s EXCEPT !.underlying = <<>>], err |-> FALSE,
               unlinked |-> TRUE]
    ELSE [s |-> [s EXCEPT !.pages = <<>>, !.lru = <<>>, !.modifiedPages = {},
                          !.pinnedPages = {}, !.size = 0],
          err |-> FALSE, unlinked |-> TRUE]

\* unlink(callback)
Unlink(supports, fails) ==
    /\ opened /\ ~unlinked
    /\ LET u == _unlink(Store, supports, fails)
       IN  /\ Becomes(u.s)
           /\ unlinked' = u.unlinked
    /\ UNCHANGED <<opened, opening, closed, closeReq, openReq>>
    /\ UNCHANGED <<ops, issued>>

NextUnlink ==
    \/ \E outcome \in {"ok", "openError", "statError"} : Open(outcome)
    \/ \E r \in ReadSteps : Read(r[1], r[2])
    \/ \E w \in WriteInputs : Write(w[1], w[2])
    \/ \E f \in FlushInputs : Flush(f[1], f[2])
    \/ \E e \in EvictInputs : Evict(e[1], e[2])
    \/ \E r \in PinRanges : Pin(r[1], r[2])
    \/ \E supports \in BOOLEAN, fails \in BOOLEAN : Unlink(supports, fails)

SpecUnlink == Init /\ [][NextUnlink]_vars

\* C22 (unlink clears the cache): after unlink completes successfully the
\* page map, the LRU index and the dirty set are empty and the unlinked
\* flag is set, whether or not the underlying storage supports unlink.
UnlinkClearsCache ==
    (opened /\ ~unlinked) =>
        \A supports \in BOOLEAN :
            LET u == _unlink(Store, supports, FALSE)
            IN  ~u.err =>
                    /\ u.unlinked
                    /\ u.s.pages = <<>>
                    /\ u.s.lru = <<>>
                    /\ u.s.modifiedPages = {}

\* unlink sets the flag; it clears the caches where the underlying storage
\* has no unlink method, and leaves them as they are where it has one
UnlinkClearsWithoutMethod ==
    (opened /\ ~unlinked) =>
        /\ LET u == _unlink(Store, FALSE, FALSE)
           IN  /\ ~u.err /\ u.unlinked
               /\ u.s.pages = <<>> /\ u.s.lru = <<>> /\ u.s.modifiedPages = {}
        /\ LET u == _unlink(Store, TRUE, FALSE)
           IN  /\ ~u.err /\ u.unlinked
               /\ u.s.pages = pages /\ u.s.lru = lru
               /\ u.s.modifiedPages = modifiedPages

\* ------------------------------------------------------------------- open
\* a faulty stat callback: the size the underlying storage reports is not
\* adopted
statCallback_keepSize(s, err) ==
    IF err THEN [s EXCEPT !.size = 0] ELSE s

\* the callback of this._underlying.stat in handleOpen (lines 90-101)
statCallback(s, err) ==
    IF err
    THEN [s EXCEPT !.size = 0]
    ELSE [s EXCEPT !.size = Max(@, Len(s.underlying))]

\* a faulty _ensureOpen: the callback runs while an open is in flight
_ensureOpen_whileOpening(isOpened, isOpening) == isOpened \/ isOpening

\* _ensureOpen(callback): the callback runs without an error once the store
\* is opened; until then it waits for this.open
_ensureOpen(isOpened, isOpening) == isOpened

\* a faulty _open: the error path leaves this.opening set
flagsAfterOpen_stayOpening(isOpened, outcome) ==
    IF outcome = "openError"
    THEN [opened |-> isOpened, opening |-> TRUE]
    ELSE [opened |-> TRUE, opening |-> FALSE]

\* this.opened and this.opening as _open leaves them when it calls back:
\* with the error of this._underlying.open (lines 82-85, 113-116), or
\* without one (lines 94-95, 99-100, 104-105)
flagsAfterOpen(isOpened, outcome) ==
    IF outcome = "openError"
    THEN [opened |-> isOpened, opening |-> FALSE]
    ELSE [opened |-> TRUE, opening |-> FALSE]

\* _open(req) on a store that is neither opened nor opening, up to the call
\* of this._underlying.open
OpenStart ==
    /\ ~opened /\ ~opening /\ openReq.stage = "none"
    /\ opening' = TRUE
    /\ openReq' = [openReq EXCEPT !.stage = "open"]
    /\ Becomes(Store)
    /\ UNCHANGED <<opened, closed, unlinked, closeReq>>
    /\ UNCHANGED <<ops, issued>>

\* _open(req) on an opened store (lines 76-78): req.callback(null) at once
Reopen ==
    /\ opened
    /\ openReq' = [openReq EXCEPT !.reopened = TRUE]
    /\ Becomes(Store)
    /\ UNCHANGED <<opened, opening, closed, unlinked, closeReq>>
    /\ UNCHANGED <<ops, issued>>

\* this._underlying.open calls back.  With an error the open fails, and
\* with it the operation that waits; without one handleOpen calls
\* this._underlying.stat, or completes the open where there is no stat
UnderlyingOpenCallsBack(outcome) ==
    /\ openReq.stage = "open"
    /\ IF outcome = "openError"
       THEN /\ opened' = flagsAfterOpen(opened, outcome).opened
            /\ opening' = flagsAfterOpen(opened, outcome).opening
            /\ openReq' = [openReq EXCEPT
                    !.stage = "none", !.outcome = "openError",
                    !.waiting = "none",
                    !.served = IF openReq.waiting = "none" THEN @ ELSE "failed"]
            /\ Becomes(Store)
       ELSE IF outcome = "noStat"
       THEN /\ opened' = flagsAfterOpen(opened, outcome).opened
            /\ opening' = flagsAfterOpen(opened, outcome).opening
            /\ openReq' = [openReq EXCEPT !.stage = "none", !.outcome = "noStat"]
            /\ Becomes([Store EXCEPT !.fileExists = TRUE])
       ELSE /\ openReq' = [openReq EXCEPT !.stage = "stat"]
            /\ Becomes([Store EXCEPT !.fileExists = TRUE])
            /\ UNCHANGED <<opened, opening>>
    /\ UNCHANGED <<closed, unlinked, closeReq>>
    /\ UNCHANGED <<ops, issued>>

\* this._underlying.stat calls back, with an error or with the length of
\* the underlying storage
StatCallsBack(outcome) ==
    /\ openReq.stage = "stat"
    /\ Becomes(statCallback(Store, outcome = "statError"))
    /\ opened' = flagsAfterOpen(opened, outcome).opened
    /\ opening' = flagsAfterOpen(opened, outcome).opening
    /\ openReq' = [openReq EXCEPT !.stage = "none", !.outcome = outcome]
    /\ UNCHANGED <<closed, unlinked, closeReq>>
    /\ UNCHANGED <<ops, issued>>

\* the operations issued on a store that is not opened
WaitingOps == {"read", "write", "del", "truncate", "stat", "flush"}

\* the store after a waiting operation has run: a read and a del of the
\* first byte, a write across the page boundary, a truncate to one byte,
\* a stat, a flush of everything
WaitingOpRuns(s, op) ==
    CASE op = "read" -> _read(s, 0, 1).s
      [] op = "write" -> _write(s, pageSize - 1, Data(2, MaxByte)).s
      [] op = "del" -> _del(s, 0, 1).s
      [] op = "truncate" -> _truncate(s, 1).s
      [] op = "stat" -> s
      [] op = "flush" -> flush(s, 0, MaxAddr, Undefined).s

\* an operation is issued on a store that is not opened: it waits in
\* _ensureOpen, which calls this.open; _open runs unless an open is in
\* flight already
Request(op) ==
    /\ ~opened /\ openReq.waiting = "none"
    /\ IF ~opening
       THEN /\ opening' = TRUE
            /\ openReq' = [openReq EXCEPT !.stage = "open", !.waiting = op]
       ELSE /\ openReq' = [openReq EXCEPT !.waiting = op]
            /\ UNCHANGED opening
    /\ Becomes(Store)
    /\ UNCHANGED <<opened, closed, unlinked, closeReq>>
    /\ UNCHANGED <<ops, issued>>

\* the callback of _ensureOpen runs the operation that waited
RunWaiting ==
    /\ openReq.waiting # "none"
    /\ _ensureOpen(opened, opening)
    /\ Becomes(WaitingOpRuns(Store, openReq.waiting))
    /\ openReq' = [openReq EXCEPT !.waiting = "none", !.served = "ran"]
    /\ UNCHANGED <<opened, opening, closed, unlinked, closeReq>>
    /\ UNCHANGED <<ops, issued>>

NextOpen ==
    \/ OpenStart
    \/ Reopen
    \/ \E outcome \in {"ok", "openError", "noStat"} : UnderlyingOpenCallsBack(outcome)
    \/ \E outcome \in {"ok", "statError"} : StatCallsBack(outcome)
    \/ \E op \in WaitingOps : Request(op)
    \/ RunWaiting
    \/ \E w \in WriteInputs : Write(w[1], w[2])
    \/ \E e \in EvictInputs : Evict(e[1], e[2])

SpecOpen == Init /\ [][NextOpen]_vars

\* C23 (size reconciliation at open): when open succeeds on an underlying
\* storage whose stat reports length S, the size becomes the greater of the
\* size before the open and S; when the stat fails, open still succeeds and
\* the size is 0; when the underlying storage has no stat, the size is left
\* unchanged.  A second open on an opened store completes at once, calls
\* nothing of the underlying storage and leaves the size unchanged.
OpenReconcilesSize ==
    [][/\ (~opened /\ openReq'.stage = "none" /\ openReq'.outcome = "ok") =>
             (opened' /\ size' = Max(size, Len(underlying)))
       /\ (~opened /\ openReq'.stage = "none" /\ openReq'.outcome = "statError") =>
             (opened' /\ size' = 0)
       /\ (~opened /\ openReq'.stage = "none" /\ openReq'.outcome = "noStat") =>
             (opened' /\ size' = size)
       /\ (openReq'.reopened /\ ~openReq.reopened) =>
             /\ openReq'.stage = "none"
             /\ UNCHANGED <<size, underlying, opened, opening>>]_vars

\* C23 reached: the store was opened over an existing file and took the
\* file's length as its size, and _open has run again on the opened store
OpenReconcilesSizeReached ==
    /\ opened
    /\ openReq.outcome = "ok"
    /\ openReq.reopened
    /\ pages = <<>>
    /\ underlying = ExistingFile
    /\ size = Len(ExistingFile)

\* what an operation changes when it runs: the page map, the LRU index, the
\* dirty set, the size and the underlying storage
UntouchedByStep == UNCHANGED <<pages, lru, modifiedPages, size, underlying>>

\* C24 (implicit open): a read, write, del, truncate, stat or flush issued
\* on a store that is not yet opened (fresh, or with an open in flight)
\* accesses no page, accesses no data of the underlying storage and updates
\* no size until the open has fully completed; if the open fails, the
\* operation fails with that error and changes nothing.
ImplicitOpen ==
    [][/\ ~opened' => UntouchedByStep
       /\ (~opened /\ opened') =>
             /\ UNCHANGED <<pages, lru, modifiedPages, underlying>>
             /\ openReq'.waiting = openReq.waiting
       /\ (openReq'.served # openReq.served /\ openReq'.served = "ran") =>
             (opened /\ ~opening /\ openReq.outcome \in {"ok", "statError", "noStat"})
       /\ (openReq.stage = "open" /\ openReq'.stage = "none" /\ ~opened'
              /\ openReq.waiting # "none") =>
             (openReq'.served = "failed" /\ openReq'.waiting = "none"
              /\ ~opened' /\ UntouchedByStep)]_vars

\* C24 reached: an operation that was issued while the store was not opened
\* has run after the open completed over an existing file, and has brought
\* a page into the store
ImplicitOpenReached ==
    /\ opened
    /\ openReq.served = "ran"
    /\ openReq.outcome = "ok"
    /\ underlying = ExistingFile
    /\ pages # <<>>

NextLifecycle ==
    \/ OpenStart
    \/ Reopen
    \/ \E outcome \in {"ok", "openError", "noStat"} : UnderlyingOpenCallsBack(outcome)
    \/ \E outcome \in {"ok", "statError"} : StatCallsBack(outcome)
    \/ \E w \in WriteInputs : ~closeReq.requested /\ Write(w[1], w[2])
    \/ \E fails \in BOOLEAN : Close(fails)
    \/ FlushCallsBack
    \/ \E fails \in BOOLEAN : FlushNext(fails)
    \/ \E outcome \in {"ok", "closeError"} : UnderlyingCloseCallsBack(outcome)
    \/ \E supports \in BOOLEAN, fails \in BOOLEAN : Unlink(supports, fails)

SpecLifecycle == Init /\ [][NextLifecycle]_vars

FlushFails(offset, n, failAt) ==
    /\ opened
    /\ Becomes(flush(Store, offset, n, failAt).s)
    /\ UNCHANGED <<opened, opening, closed, unlinked, closeReq, openReq>>
    /\ UNCHANGED <<ops, issued>>

\* evict(percent, true, callback) over an underlying storage whose write
\* for page failAt calls back with an error
EvictFails(percent, failAt) ==
    /\ opened
    /\ Becomes(evict(Store, percent, TRUE, failAt))
    /\ UNCHANGED <<opened, opening, closed, unlinked, closeReq, openReq>>
    /\ UNCHANGED <<ops, issued>>

\* the pages whose write may fail
FailingPages == 0..(NumPages - 1)

NextFailing ==
    \/ \E outcome \in {"ok", "openError", "statError"} : Open(outcome)
    \/ \E r \in ReadSteps : Read(r[1], r[2])
    \/ \E w \in WriteInputs : Write(w[1], w[2])
    \/ \E f \in FlushInputs : Flush(f[1], f[2])
    \/ \E f \in FlushInputs, k \in FailingPages : FlushFails(f[1], f[2], k)
    \/ \E e \in EvictInputs : Evict(e[1], e[2])
    \/ \E e \in EvictInputs, k \in FailingPages : EvictFails(e[1], k)
    \/ \E r \in PinRanges : Pin(r[1], r[2])
    \/ \E r \in PinRanges : Unpin(r[1], r[2])

SpecFailing == Init /\ [][NextFailing]_vars

\* the first and the last page of flush(o, n) in store s
FlushStartPage(s, o) == o \div pageSize

FlushEndPage(s, o, n) == (o + Min(n, s.size) - 1) \div pageSize

\* C26 (a flush failure is partial, not rolled back): if the write of the
\* underlying storage for page k of a flush fails, the flush reports the
\* error, no write lands at page k or after it and nothing is truncated,
\* the pages of the range before k are no longer dirty, and page k and
\* every page after it keep their dirty marks and their contents.
FlushFailurePartial ==
    opened =>
        \A f \in FlushInputs, k \in FailingPages :
            LET failed == flush(Store, f[1], f[2], k)
            IN  k \in FlushStartPage(Store, f[1])..FlushEndPage(Store, f[1], f[2]) =>
                    /\ failed.err
                    /\ Len(failed.s.underlying) >= Len(underlying)
                    /\ \A i \in (k * pageSize)..(MaxAddr + pageSize) :
                          StoredAt(failed.s.underlying, i) = StoredAt(underlying, i)
                    /\ \A p \in FlushStartPage(Store, f[1])..(k - 1) :
                          /\ p \notin failed.s.modifiedPages
                          /\ p \in DOMAIN pages => ~failed.s.pages[p].modified
                    /\ \A p \in DOMAIN pages :
                          p >= k =>
                              /\ failed.s.pages[p] = pages[p]
                              /\ (p \in failed.s.modifiedPages) = (p \in modifiedPages)
                    /\ failed.s.size = size

\* C26 reached: both pages of the store are dirty; the flush of everything
\* whose second write fails has stored the first page and cleared its
\* mark, and has left the second page dirty and the underlying storage
\* without its bytes
FlushFailurePartialReached ==
    /\ opened
    /\ modifiedPages = {0, 1}
    /\ DOMAIN pages = {0, 1}
    /\ pages[0].data = Data(pageSize, MaxByte)
    /\ size > pageSize
    /\ LET failed == flush(Store, 0, MaxAddr, 1)
       IN  /\ failed.err
           /\ failed.s.modifiedPages = {1}
           /\ subarray(failed.s.underlying, 0, pageSize) = pages[0].data
           /\ StoredAt(failed.s.underlying, pageSize) = StoredAt(underlying, pageSize)

\* the pages that evict(percent, true) takes in store s: the first
\* ceil(lru.size * percent) unpinned keys of the LRU index, least recently
\* used first
EvictedPages(s, percent) ==
    LET unpinned == Reverse(SelectSeq(s.lru, LAMBDA index : index \notin s.pinnedPages))
        pagesToEvict == (Len(s.lru) * percent + 99) \div 100
    IN  {unpinned[j] : j \in 1..Min(pagesToEvict, Len(unpinned))}

FlushFrame ==
    opened =>
        \A f \in FlushInputs :
            LET flushed == flush(Store, f[1], f[2], Undefined)
                range == FlushStartPage(Store, f[1])..FlushEndPage(Store, f[1], f[2])
            IN  /\ \A p \in modifiedPages \ range :
                      /\ p \in flushed.s.modifiedPages
                      /\ p \in DOMAIN pages =>
                            (p \in DOMAIN flushed.s.pages /\ flushed.s.pages[p] = pages[p])
                /\ \A i \in 0..(MaxAddr + pageSize) :
                      ((i \div pageSize) \notin range
                          /\ StoredAt(underlying, i) # NotStored
                          /\ StoredAt(flushed.s.underlying, i) # NotStored) =>
                          StoredAt(flushed.s.underlying, i) = StoredAt(underlying, i)

\* C28 reached: both pages are dirty and the underlying storage holds
\* other bytes than the pages; the flush of the first page stores that
\* page, leaves the second page dirty and leaves the bytes stored for the
\* second page as they were
FlushFrameReached ==
    /\ opened
    /\ modifiedPages = {0, 1}
    /\ DOMAIN pages = {0, 1}
    /\ size = Len(ExistingFile)
    /\ underlying = ExistingFile
    /\ pages[1].data = alloc(pageSize)
    /\ LET flushed == flush(Store, 0, pageSize, Undefined).s
       IN  /\ flushed.modifiedPages = {1}
           /\ flushed.pages[1].modified
           /\ subarray(flushed.underlying, 0, pageSize) = pages[0].data
           /\ StoredAt(flushed.underlying, pageSize) = MaxByte

\* the bytes of [o, end) are gone from underlying storage u: each is zero
\* or lies past the end of u
GoneFrom(u, o, end) ==
    \A i \in o..(end - 1) : StoredAt(u, i) \in {0, NotStored}

\* C29 (a delete reaches the underlying storage on flush): for every
\* history, also one in which the deleted bytes had been flushed before,
\* after a trailing del(o, s) with o + s = the old size and a successful
\* flush(0, old size), the underlying storage holds the overlay's bytes in
\* [0, o), and in [o, o + s) it holds zeros or ends before them: it never
\* still holds the deleted non-zero bytes.
DeleteReachesUnderlying ==
    opened =>
        \A o \in 0..(size - 1) :
            LET deleted == _del(Store, o, size - o)
                flushed == flush(deleted.s, 0, size, Undefined)
            IN  (~deleted.err /\ ~flushed.err) =>
                    /\ \A i \in 0..(o - 1) :
                          ByteAt(deleted.s, i) # ReadFails =>
                              StoredAt(flushed.s.underlying, i) = ByteAt(deleted.s, i)
                    /\ GoneFrom(flushed.s.underlying, o, size)

\* what the flush after a trailing del does: it writes the pages of [0, o)
\* and nothing behind them, and truncates nothing, so behind o the
\* underlying storage holds what it held before
DeleteLeavesUnderlyingTail ==
    opened =>
        \A o \in 0..(size - 1) :
            LET deleted == _del(Store, o, size - o)
                flushed == flush(deleted.s, 0, size, Undefined)
            IN  (~deleted.err /\ ~flushed.err) =>
                    /\ deleted.s.size = o
                    /\ Len(flushed.s.underlying) >= Len(underlying)
                    /\ \A i \in (((o + pageSize - 1) \div pageSize) * pageSize)..(size - 1) :
                          StoredAt(flushed.s.underlying, i) = StoredAt(underlying, i)

\* the deleted bytes had been flushed: the last byte of the store is
\* non-zero in the underlying storage, and it is still there after del of
\* that byte and flush(0, old size)
DeletedByteStaysStored ==
    /\ opened
    /\ size > 0
    /\ StoredAt(underlying, size - 1) = MaxByte
    /\ LET deleted == _del(Store, size - 1, 1)
           flushed == flush(deleted.s, 0, size, Undefined)
       IN  /\ ~deleted.err /\ ~flushed.err
           /\ StoredAt(flushed.s.underlying, size - 1) = MaxByte

\* the pages that read(o, n) touches
ReadPages(o, n) == IF n = 0 THEN {} ELSE PageRange(o, n)

\* page p of store s is not resident and the underlying storage ends
\* before the bytes that _loadPage asks of it
ShortForPage(s, p) ==
    /\ p \notin DOMAIN s.pages
    /\ s.size > p * pageSize
    /\ Len(s.underlying) < Min((p + 1) * pageSize, s.size)

\* C30 (a read never fails for reaching past the data): on the store
\* without a strict limit, in every reachable state read(o, n) succeeds and
\* returns zero for every byte at or beyond the size, also where the
\* underlying storage is shorter than the size.
ReadNeverFailsPastData ==
    (opened /\ strictSizeLimit = Undefined) =>
        \A r \in ReadInputs :
            LET got == _read(Store, r[1], r[2])
            IN  /\ ~got.err
                /\ \A j \in 1..r[2] : r[1] + j - 1 >= size => got.data[j] = 0

\* what the code does: a read fails exactly when it touches a page that is
\* not resident and for which the underlying storage is too short, with
\* the error of the underlying storage; a read that succeeds returns zero
\* for every byte at or beyond the size
ReadFailsOnShortUnderlying ==
    (opened /\ strictSizeLimit = Undefined) =>
        \A r \in ReadInputs :
            LET got == _read(Store, r[1], r[2])
            IN  /\ got.err = (\E p \in ReadPages(r[1], r[2]) : ShortForPage(Store, p))
                /\ got.err => got.msg = CouldNotSatisfyLength
                /\ ~got.err =>
                      \A j \in 1..r[2] : r[1] + j - 1 >= size => got.data[j] = 0

\* an unflushed write was discarded by evict(100, false): the size is
\* beyond the end of the underlying storage, no page is resident, and the
\* read of the first byte fails
ReadFailsAfterDiscard ==
    /\ opened
    /\ pages = <<>>
    /\ size > Len(underlying)
    /\ _read(Store, 0, 1).err

\* ---------------------------------------------------------------- eviction
\* ceil(n * percent), percent in hundredths
CeilOf(n, percent) == (n * percent + 99) \div 100

\* the pages of store s that store t no longer holds
Removed(s, t) == DOMAIN s.pages \ DOMAIN t.pages

\* the bytes below the size that page p holds in store s are stored in u
PageStoredIn(s, p, u) ==
    \A j \in 0..(pageSize - 1) :
        (p * pageSize + j < s.size /\ j < Len(s.pages[p].data)) =>
            StoredAt(u, p * pageSize + j) = s.pages[p].data[j + 1]

\* the position of key k in the list l, 0 when it is absent
RECURSIVE PositionIn(_, _)
PositionIn(l, k) ==
    IF l = <<>> THEN 0
    ELSE IF l[Len(l)] = k THEN Len(l)
    ELSE PositionIn(SubSeq(l, 1, Len(l) - 1), k)

\* C31 (evict removes the least recently accessed unpinned pages): evict(
\* percent, flushFirst) removes exactly min(ceil(n * percent), u) pages, n
\* the number of pages the overlay holds and u the number of unpinned ones;
\* with flushFirst each removed page's bytes are in the backend, without it
\* nothing is written to the backend; the size is unchanged.
EvictLeastRecent ==
    opened =>
        \A e \in EvictInputs :
            LET n == Cardinality(DOMAIN pages)
                u == Cardinality(DOMAIN pages \ pinnedPages)
                after == evict(Store, e[1], e[2], Undefined)
            IN  /\ Cardinality(Removed(Store, after)) = Min(CeilOf(n, e[1]), u)
                /\ Removed(Store, after) \cap pinnedPages = {}
                /\ e[2] => \A p \in Removed(Store, after) :
                              PageStoredIn(Store, p, after.underlying)
                /\ ~e[2] => after.underlying = underlying
                /\ after.size = size

\* what the code does: the count is taken from the keys of the LRU index,
\* not from the pages the overlay holds; the pages removed are the unpinned
\* keys of the index that were accessed least recently
EvictLeastRecentOfIndex ==
    opened =>
        \A e \in EvictInputs :
            LET listed == SeqToSet(lru)
                after == evict(Store, e[1], e[2], Undefined)
                gone == Removed(Store, after)
            IN  /\ Cardinality(gone) =
                      Min(CeilOf(Len(lru), e[1]),
                          Cardinality((listed \cap DOMAIN pages) \ pinnedPages))
                /\ gone \subseteq listed \ pinnedPages
                /\ \A p \in gone : \A q \in (listed \ pinnedPages) \ gone :
                      PositionIn(lru, p) > PositionIn(lru, q)
                /\ ~e[2] => after.underlying = underlying
                /\ after.size = size

\* the overlay holds two unpinned pages and evict(100, false) removes one
EvictLeavesUnlistedPage ==
    /\ opened
    /\ pinnedPages = {}
    /\ Cardinality(DOMAIN pages) = 2
    /\ Cardinality(DOMAIN evict(Store, 100, FALSE, Undefined).pages) = 1

\* ------------------------------------------------------------- clean pages
\* what the underlying storage holds at offset i, a byte past its end
\* counting as zero
ZeroPadded(u, i) == IF i < Len(u) THEN u[i + 1] ELSE 0

\* C34 (clean pages match the backend): with no operation in flight, every
\* resident page whose modified flag is false holds, at every offset of the
\* page below the size, the byte the underlying storage holds there; a
\* flush over part of a page does not leave the page clean with bytes that
\* were not written.
CleanPagesMatchBackend ==
    opened =>
        \A p \in DOMAIN pages :
            ~pages[p].modified =>
                \A j \in 0..(Len(pages[p].data) - 1) :
                    p * pageSize + j < size =>
                        pages[p].data[j + 1] = ZeroPadded(underlying, p * pageSize + j)

\* what the code does: a flush whose clipped range is not empty leaves
\* every resident page that the range touches clean, however little of the
\* page the range covers
FlushCleansTouchedPages ==
    opened =>
        \A f \in FlushInputs :
            LET n == Min(f[2], size)
                flushed == flush(Store, f[1], f[2], Undefined).s
            IN  n > 0 =>
                    \A p \in PageRange(f[1], n) \cap DOMAIN pages :
                        ~flushed.pages[p].modified

\* a page was written whole, flush(0, 1) wrote its first byte, and the
\* page is clean while its second byte is not in the underlying storage
CleanPageNotStored ==
    /\ opened
    /\ size = pageSize
    /\ 0 \in DOMAIN pages
    /\ ~pages[0].modified
    /\ pages[0].data = Data(pageSize, MaxByte)
    /\ underlying = Data(1, MaxByte)

\* --------------------------------------------------------------- LRU index
\* C37 (the LRU index and the page map track the same pages): with no
\* operation in flight, the keys of the LRU index are the keys of the page
\* map, so every resident unpinned page is a candidate of evict.
LruTracksPages ==
    opened => SeqToSet(lru) = DOMAIN pages

\* what the code does: the index never holds more than maxPages keys and
\* never the same key twice, while a page that the index drops stays in
\* the page map (the dispose hook finds no page under the key it is given)
LruWithinMax ==
    /\ Len(lru) <= maxPages
    /\ Cardinality(SeqToSet(lru)) = Len(lru)

\* a resident unpinned page that is not in the LRU index: evict(100) leaves
\* it resident
ResidentPageNotListed ==
    /\ opened
    /\ \E p \in DOMAIN pages \ pinnedPages :
          /\ p \notin SeqToSet(lru)
          /\ p \in DOMAIN evict(Store, 100, TRUE, Undefined).pages

\* ------------------------------------------------------------ del and size
\* C38 (del never increases the size): for every offset o, also beyond the
\* size, and every length s, also Infinity, the size after del(o, s) is at
\* most the size before it.
DelNeverGrows ==
    opened =>
        \A d \in DelInputs : _del(Store, d[1], d[2]).s.size <= size

\* what the code does: del(o, s) leaves the size alone when o + s ends
\* before it, and sets it to o otherwise, also when o is beyond the size
DelSetsSizeToOffset ==
    opened =>
        \A d \in DelInputs :
            _del(Store, d[1], d[2]).s.size =
                IF d[2] # Infinity /\ d[1] + d[2] < size THEN size ELSE d[1]

\* a del that starts beyond the size raises the size to its offset
DelBeyondSizeGrows ==
    /\ opened
    /\ size < MaxAddr
    /\ _del(Store, MaxAddr, 1).s.size = MaxAddr

\* ----------------------------------------------------------------- pin set
\* C39 (the pin set is changed only by pin and unpin): read, write, del,
\* truncate to any size, flush and evict leave the set of pinned page
\* indices as it was.
PinSetFrame ==
    opened =>
        /\ \A r \in ReadInputs :
              _read(Store, r[1], r[2]).s.pinnedPages = pinnedPages
        /\ \A w \in WriteInputs :
              _write(Store, w[1], w[2]).s.pinnedPages = pinnedPages
        /\ \A d \in DelInputs :
              _del(Store, d[1], d[2]).s.pinnedPages = pinnedPages
        /\ \A newSize \in TruncateInputs :
              _truncate(Store, newSize).s.pinnedPages = pinnedPages
        /\ \A f \in FlushInputs :
              flush(Store, f[1], f[2], Undefined).s.pinnedPages = pinnedPages
        /\ \A e \in EvictInputs :
              evict(Store, e[1], e[2], Undefined).pinnedPages = pinnedPages

\* what the code does: every operation but truncate leaves the pin set as
\* it was; a truncate to a smaller or equal size unpins exactly the resident
\* pages that it removes
PinSetFrameButShrink ==
    opened =>
        /\ \A r \in ReadInputs :
              _read(Store, r[1], r[2]).s.pinnedPages = pinnedPages
        /\ \A w \in WriteInputs :
              _write(Store, w[1], w[2]).s.pinnedPages = pinnedPages
        /\ \A d \in DelInputs :
              _del(Store, d[1], d[2]).s.pinnedPages = pinnedPages
        /\ \A f \in FlushInputs :
              flush(Store, f[1], f[2], Undefined).s.pinnedPages = pinnedPages
        /\ \A e \in EvictInputs :
              evict(Store, e[1], e[2], Undefined).pinnedPages = pinnedPages
        /\ \A newSize \in TruncateInputs :
              LET truncated == _truncate(Store, newSize).s
              IN  truncated.pinnedPages =
                      IF newSize > size THEN pinnedPages
                      ELSE pinnedPages \ Removed(Store, truncated)

\* a pinned resident page is removed and unpinned by truncate(0); written
\* again, it is evicted by evict(100, false)
ShrinkUnpins ==
    /\ opened
    /\ ~bitmask.present
    /\ 0 \in pinnedPages \cap DOMAIN pages
    /\ LET truncated == _truncate(Store, 0).s
           written == _write(truncated, 0, Data(1, MaxByte)).s
       IN  /\ 0 \notin truncated.pinnedPages
           /\ 0 \in DOMAIN written.pages
           /\ 0 \notin DOMAIN evict(written, 100, FALSE, Undefined).pages

\* ------------------------------------------------------- requests in flight
\* The requests of random-access-storage run unserialised: read, write, del
\* and flush each do the work of one page and then wait, for setImmediate or
\* for the underlying storage, while other requests run.  The underlying
\* storage takes the bytes of a write and of a truncate, and picks the bytes
\* of a read, when it is called (as random-access-memory does), and calls
\* back later; setImmediate callbacks run in the order they were queued.

\* req.callback(err)
called(o, err) == [o EXCEPT !.wait = "called", !.err = err]

\* bytesDone += bytes; offset += bytes; setImmediate(next)
advance(o, bytes) ==
    [o EXCEPT !.wait = "immediate", !.at = @ + bytes, !.done = @ + bytes]

\* _loadPage: bytesToRead > 0 and the file exists, so _underlying.read is
\* called
needsRead(s, pageIndex) ==
    s.fileExists /\ Min(pageSize, s.size - pageIndex * pageSize) > 0

\* _loadPage: the request waits for _underlying.read(pageOffset, bytesToRead)
awaitLoad(s, o, pageIndex) ==
    LET pageOffset == pageIndex * pageSize
        bytesToRead == Min(pageSize, s.size - pageOffset)
        can == UnderlyingCanRead(s.underlying, pageOffset, bytesToRead)
    IN  [o EXCEPT !.wait = "load", !.page = pageIndex,
                  !.got = IF can THEN "data" ELSE "error",
                  !.loaded = IF can
                             THEN UnderlyingRead(s.underlying, pageOffset, bytesToRead)
                             ELSE <<>>]

\* _loadPage: the callback of _underlying.read installs the page it built
loadedPage(s, o) ==
    insertPage(s, o.page, bufset(alloc(pageSize), o.loaded, 0))

\* _loadPage when nothing is to be read: a zero page is installed at once
zeroPage(s, pageIndex) == insertPage(s, pageIndex, alloc(pageSize))

\* the prefix of a handler: _ensureOpen on an opened store
started(kind, offset, data, end, at) ==
    [NoOp EXCEPT !.kind = kind, !.offset = offset, !.data = data,
                 !.end = end, !.at = at]

\* ---- write
writeChunk(o) ==
    LET pageOffset == o.at % pageSize
        bytesToWrite == Min(pageSize - pageOffset, Len(o.data) - o.done)
    IN  subarray(o.data, o.done, o.done + bytesToWrite)

\* one run of writeNext: [s, o]
writeNextStep(s, o) ==
    IF o.done >= Len(o.data)
    THEN [s |-> updateSize(s, o.offset, o.data), o |-> called(o, FALSE)]
    ELSE
      LET pageIndex == o.at \div pageSize
          pageOffset == o.at % pageSize
          chunk == writeChunk(o)
      IN  IF s.bitmask.present /\ ~_isBitSet(s, o.at, Len(chunk))
          THEN [s |-> s, o |-> advance(o, Len(chunk))]
          ELSE IF pageIndex \in DOMAIN s.pages
          THEN [s |-> writePage(s, pageIndex, pageOffset, chunk),
                o |-> advance(o, Len(chunk))]
          ELSE IF needsRead(s, pageIndex)
          THEN [s |-> s, o |-> awaitLoad(s, o, pageIndex)]
          ELSE [s |-> writePage(zeroPage(s, pageIndex), pageIndex, pageOffset, chunk),
                o |-> advance(o, Len(chunk))]

\* the callback of _getOrCreatePage in writeNext, after a load
writeLoaded(s, o) ==
    IF o.got = "error" THEN [s |-> s, o |-> called(o, TRUE)]
    ELSE [s |-> writePage(loadedPage(s, o), o.page, o.at % pageSize, writeChunk(o)),
          o |-> advance(o, Len(writeChunk(o)))]

\* _write(req) up to its first wait
writeStarted(s, offset, data) ==
    LET o == started("write", offset, data, 0, offset)
    IN  IF s.strictSizeLimit # Undefined /\ offset + Len(data) > s.strictSizeLimit
        THEN [s |-> s, o |-> called(o, TRUE)]
        ELSE writeNextStep(s, o)

\* ---- read
\* the callback of _getPage in readNext, for a page that s holds
readPage(s, o) ==
    LET pageIndex == o.at \div pageSize
        pageOffset == o.at % pageSize
        bytesToRead == Min(pageSize - pageOffset, Len(o.data) - o.done)
        page == s.pages[pageIndex]
        filled == [o EXCEPT !.data =
                      bufset(@, subarray(page.data, pageOffset, pageOffset + bytesToRead),
                             o.done)]
    IN  [s |-> _touchPage(s, pageIndex), o |-> advance(filled, bytesToRead)]

\* one run of readNext: [s, o]
readNextStep(s, o) ==
    IF o.done >= Len(o.data) THEN [s |-> s, o |-> called(o, FALSE)]
    ELSE
      LET pageIndex == o.at \div pageSize
      IN  IF pageIndex \in DOMAIN s.pages THEN readPage(s, o)
          ELSE IF needsRead(s, pageIndex)
          THEN [s |-> s, o |-> awaitLoad(s, o, pageIndex)]
          ELSE readPage(zeroPage(s, pageIndex), o)

\* the callback of _getPage in readNext, after a load
readLoaded(s, o) ==
    IF o.got = "error" THEN [s |-> s, o |-> called(o, TRUE)]
    ELSE readPage(loadedPage(s, o), o)

\* _read(req) up to its first wait
readStarted(s, offset, n) ==
    LET o == started("read", offset, alloc(n), 0, offset)
    IN  IF ~s.fileExists THEN [s |-> s, o |-> called(o, TRUE)]
        ELSE IF s.strictSizeLimit # Undefined /\ offset + n > s.strictSizeLimit
        THEN [s |-> s, o |-> called(o, TRUE)]
        ELSE readNextStep(s, o)

\* ---- del
bytesToDelete(o) == Min(pageSize - (o.at % pageSize), o.end - o.at)

\* page.data.fill(0, pageOffset, pageOffset + bytesToDelete) reaches past
\* the end of the page's buffer: a Uint8Array clamps the range, a Node
\* Buffer throws ERR_OUT_OF_RANGE
fillOutOfRange(s, o) ==
    LET pageIndex == o.at \div pageSize
    IN  /\ o.done < o.end - o.offset
        /\ pageIndex \in DOMAIN s.pages
        /\ (o.at % pageSize) + bytesToDelete(o) > Len(s.pages[pageIndex].data)

\* the exception leaves the handler: the request is never called back
thrown(o) == [o EXCEPT !.wait = "thrown"]

\* the callback of _getPage in deleteNext, for a page that s holds
deleteStep(s, o, throws) ==
    IF throws /\ fillOutOfRange(s, o) THEN [s |-> s, o |-> thrown(o)]
    ELSE [s |-> deletePage(s, o.at \div pageSize, o.at % pageSize, bytesToDelete(o)),
          o |-> advance(o, bytesToDelete(o))]

\* one run of deleteNext: [s, o]
deleteNextStep(s, o, throws) ==
    IF o.done >= o.end - o.offset
    THEN [s |-> IF o.end = s.size THEN [s EXCEPT !.size = o.offset] ELSE s,
          o |-> called(o, FALSE)]
    ELSE
      LET pageIndex == o.at \div pageSize
      IN  IF pageIndex \in DOMAIN s.pages THEN deleteStep(s, o, throws)
          ELSE IF needsRead(s, pageIndex)
          THEN [s |-> s, o |-> awaitLoad(s, o, pageIndex)]
          ELSE deleteStep(zeroPage(s, pageIndex), o, throws)

\* the callback of _getPage in deleteNext, after a load: a page that could
\* not be loaded is passed over
deleteLoaded(s, o) ==
    IF o.got = "error" THEN [s |-> s, o |-> advance(o, bytesToDelete(o))]
    ELSE deleteStep(loadedPage(s, o), o, FALSE)

\* _del(req) up to its first wait
delStarted(s, offset, n, throws) ==
    LET end == IF n = Infinity \/ offset + n > s.size THEN s.size ELSE offset + n
    IN  deleteNextStep(s, started("del", offset, <<>>, end, offset), throws)

\* ---- flush
\* one run of flushNext: [s, o]
flushNextStep(s, o) ==
    IF o.at > (o.end - 1) \div pageSize
    THEN IF s.size < o.end
         THEN [s |-> [s EXCEPT !.underlying = UnderlyingTruncate(@, s.size)],
               o |-> [o EXCEPT !.wait = "truncate"]]
         ELSE [s |-> s, o |-> called(o, FALSE)]
    ELSE [s |-> flushWrite(s, o.offset, o.end, o.at),
          o |-> [o EXCEPT !.wait = "store", !.page = o.at, !.at = @ + 1,
                          !.got = IF o.at \in DOMAIN s.pages THEN "current"
                                  ELSE "absent"]]

\* the callback of _underlying.write in flushNext: page is the object that
\* flushNext took from _pages before the write
flushStored(s, o) ==
    LET p == o.page
    IN  [s |-> IF o.got = "current" /\ s.pages[p].modified
               THEN [s EXCEPT !.pages[p].modified = FALSE,
                              !.modifiedPages = @ \ {p}]
               ELSE IF o.got = "staleDirty"
               THEN [s EXCEPT !.modifiedPages = @ \ {p}]
               ELSE s,
         o |-> [o EXCEPT !.wait = "immediate"]]

\* flush(offset, size, callback) up to its first wait
flushStarted(s, offset, n) ==
    LET clipped == Min(n, s.size)
    IN  flushNextStep(s, started("flush", offset, <<>>, offset + clipped,
                                 offset \div pageSize))

\* ---- page objects and queues
\* _pages has dropped or replaced the objects of the pages gone: a flush
\* that waits for its write keeps the object it took
detach(os, s, gone) ==
    [i \in DOMAIN os |->
        IF os[i].wait = "store" /\ os[i].got = "current" /\ os[i].page \in gone
        THEN [os[i] EXCEPT !.got = IF s.pages[os[i].page].modified
                                   THEN "staleDirty" ELSE "staleClean"]
        ELSE os[i]]

\* the request of slot i has run and become o: called back, it leaves the
\* slot; otherwise it is queued behind a request that waits for
\* setImmediate, and the one that waited behind it comes first
settle(os, i, o) ==
    [k \in DOMAIN os |->
        IF k = i
        THEN IF o.wait = "called" THEN NoOp
             ELSE [o EXCEPT !.behind =
                      o.wait = "immediate"
                      /\ \E j \in DOMAIN os \ {i} : os[j].wait = "immediate"]
        ELSE IF os[i].wait = "immediate" THEN [os[k] EXCEPT !.behind = FALSE]
        ELSE os[k]]

\* a read no longer follows a write directly once something else was issued
forget(os) == [i \in DOMAIN os |-> [os[i] EXCEPT !.expect = <<>>]]

FreeSlot(i) ==
    /\ ops[i].kind = "none"
    /\ \A j \in 1..(i - 1) : ops[j].kind # "none"

\* the store and slot i of os take the outcome r = [s, o] of a run; the
\* pages of gone lose their object
Runs(os, i, r, gone) ==
    /\ Becomes(r.s)
    /\ ops' = settle(detach(os, Store, gone), i, r.o)
    /\ UNCHANGED <<opened, opening, closed, unlinked, closeReq, openReq>>

\* the caller issues n more requests
Issues(n) ==
    /\ issued + n <= MaxIssued
    /\ issued' = issued + n

\* the page whose object the callback of a load replaces
Replaced(o) == IF o.got = "data" /\ o.page \in DOMAIN pages THEN {o.page} ELSE {}

\* one run of readNext, writeNext, deleteNext or flushNext
nextStep(s, o, throws) ==
    IF o.kind = "read" THEN readNextStep(s, o)
    ELSE IF o.kind = "write" THEN writeNextStep(s, o)
    ELSE IF o.kind = "del" THEN deleteNextStep(s, o, throws)
    ELSE flushNextStep(s, o)

\* the callback that _loadPage was given
pageLoaded(s, o) ==
    IF o.kind = "read" THEN readLoaded(s, o)
    ELSE IF o.kind = "write" THEN writeLoaded(s, o)
    ELSE deleteLoaded(s, o)

\* read(offset, size, callback)
IssueRead(i, offset, n) ==
    /\ opened /\ FreeSlot(i)
    /\ Issues(1)
    /\ Runs(forget(ops), i, readStarted(Store, offset, n), {})

\* write(offset, data, callback)
IssueWrite(i, offset, data) ==
    /\ opened /\ FreeSlot(i)
    /\ Issues(1)
    /\ Runs(forget(ops), i, writeStarted(Store, offset, data), {})

\* del(offset, size, callback)
IssueDel(i, offset, n, throws) ==
    /\ opened /\ FreeSlot(i)
    /\ Issues(1)
    /\ Runs(forget(ops), i, delStarted(Store, offset, n, throws), {})

\* flush(offset, size, callback), one flush at a time
IssueFlush(i, offset, n) ==
    /\ opened /\ FreeSlot(i)
    /\ Issues(1)
    /\ \A j \in DOMAIN ops : ops[j].kind # "flush"
    /\ Runs(forget(ops), i, flushStarted(Store, offset, n), {})

\* write(offset, data, cb1); read(offset, data.length, cb2) in one turn of
\* the caller
IssueWriteRead(offset, data) ==
    /\ opened
    /\ Issues(2)
    /\ \A j \in DOMAIN ops : ops[j].kind = "none"
    /\ LET w == writeStarted(Store, offset, data)
           r == readStarted(w.s, offset, Len(data))
           first == settle(ops, 1, w.o)
       IN  /\ Becomes(r.s)
           /\ ops' = settle(first, 2, [r.o EXCEPT !.expect = data])
    /\ UNCHANGED <<opened, opening, closed, unlinked, closeReq, openReq>>

\* the callback that the request of slot i gave setImmediate runs
ImmediateRuns(i, throws) ==
    /\ ops[i].wait = "immediate" /\ ~ops[i].behind
    /\ UNCHANGED issued
    /\ Runs(ops, i, nextStep(Store, ops[i], throws), {})

\* _underlying.read calls back
LoadCallsBack(i) ==
    /\ ops[i].wait = "load"
    /\ UNCHANGED issued
    /\ Runs(ops, i, pageLoaded(Store, ops[i]), Replaced(ops[i]))

\* _underlying.write calls back
StoreCallsBack(i) ==
    /\ ops[i].wait = "store"
    /\ UNCHANGED issued
    /\ Runs(ops, i, flushStored(Store, ops[i]), {})

\* _underlying.truncate calls back at the end of a flush
TruncateCallsBack(i) ==
    /\ ops[i].wait = "truncate"
    /\ UNCHANGED issued
    /\ Runs(ops, i, [s |-> Store, o |-> called(ops[i], FALSE)], {})

\* evict(1, false) between the runs of the requests
EvictBetween ==
    /\ opened
    /\ Issues(1)
    /\ LET after == evict(Store, 100, FALSE, Undefined)
       IN  /\ Becomes(after)
           /\ ops' = detach(forget(ops), Store, Removed(Store, after))
    /\ UNCHANGED <<opened, opening, closed, unlinked, closeReq, openReq>>

\* truncate(newSize) to a smaller size between the runs of the requests
TruncateBetween(newSize) ==
    /\ opened
    /\ Issues(1)
    /\ newSize < size
    /\ LET after == _truncate(Store, newSize).s
       IN  /\ Becomes(after)
           /\ ops' = detach(forget(ops), Store, Removed(Store, after))
    /\ UNCHANGED <<opened, opening, closed, unlinked, closeReq, openReq>>

\* the requests that are issued
StepReads == {<<0, 1>>, <<pageSize - 1, 2>>}

StepWrites == {<<0, <<0>>>>, <<pageSize - 1, <<1, 1>>>>, <<pageSize, <<1>>>>}

StepDels == {<<0, pageSize>>, <<pageSize, Infinity>>}

StepFlushes == {<<0, pageSize>>, <<pageSize, 1>>}

NextInFlight ==
    \/ \E outcome \in {"ok", "openError", "statError"} : Open(outcome)
    \/ \E i \in 1..MaxOps : \E r \in StepReads : IssueRead(i, r[1], r[2])
    \/ \E i \in 1..MaxOps : \E w \in StepWrites : IssueWrite(i, w[1], w[2])
    \/ \E i \in 1..MaxOps : \E d \in StepDels : \E throws \in BOOLEAN :
          IssueDel(i, d[1], d[2], throws)
    \/ \E i \in 1..MaxOps : \E f \in StepFlushes : IssueFlush(i, f[1], f[2])
    \/ \E w \in StepWrites : IssueWriteRead(w[1], w[2])
    \/ \E i \in 1..MaxOps : \E throws \in BOOLEAN : ImmediateRuns(i, throws)
    \/ \E i \in 1..MaxOps : LoadCallsBack(i)
    \/ \E i \in 1..MaxOps : StoreCallsBack(i)
    \/ \E i \in 1..MaxOps : TruncateCallsBack(i)
    \/ EvictBetween
    \/ TruncateBetween(1)

SpecInFlight == Init /\ [][NextInFlight]_vars

\* C32 (issue order between a write and a read in flight together): a
\* read(o, n) issued in the same turn as write(o, d), after it and before
\* its callback, returns d on the bytes of d, whether the pages are resident
\* or must be loaded, and over one page or several.
IssueOrderRespected ==
    \A i \in 1..MaxOps :
        (/\ ops[i].kind = "read"
         /\ ops[i].expect # <<>>
         /\ ops[i].wait = "immediate"
         /\ ops[i].done >= Len(ops[i].data)) =>
            ops[i].data = ops[i].expect

\* C33 (dirty-set consistency): in every reachable state, also between the
\* page steps of interleaved requests, the set of modified page indices is
\* exactly the set of resident pages whose modified flag is true.
DirtySetConsistent ==
    modifiedPages = {p \in DOMAIN pages : pages[p].modified}

\* the offsets within page pageIndex that flushNext writes for the request o
FlushedOffsets(o, pageIndex) ==
    {j \in 0..(pageSize - 1) :
        /\ pageIndex = o.offset \div pageSize => j >= o.offset % pageSize
        /\ pageIndex = (o.end - 1) \div pageSize => j <= (o.end - 1) % pageSize}

\* the callback of the call that the request of slot i waited for runs
CallsBack(i, call) == ops[i].wait = call /\ ops'[i].wait # call

\* C35 (a write during a flush's backend write is not forgotten): when the
\* callback of the backend write for page p runs and the page holds, within
\* the range that was written, a byte that the underlying storage lacks,
\* the page is still marked modified afterwards.
FlushKeepsLaterWrite ==
    [][\A i \in 1..MaxOps :
          (/\ CallsBack(i, "store")
           /\ ops[i].got = "current"
           /\ \E j \in FlushedOffsets(ops[i], ops[i].page) :
                 /\ j < Len(pages[ops[i].page].data)
                 /\ pages[ops[i].page].data[j + 1] #
                        StoredAt(underlying, ops[i].page * pageSize + j))
          => pages'[ops[i].page].modified]_vars

\* a write has changed, within the range that a flush has handed to the
\* underlying storage, the page whose write the flush waits for, and the
\* callback of that write leaves the page clean
WriteDuringFlush ==
    \E i, k \in 1..MaxOps :
        /\ ops[i].kind = "flush" /\ ops[i].wait = "store" /\ ops[i].got = "current"
        /\ ops[k].kind = "write" /\ ops[k].done > 0
        /\ ops[k].offset \div pageSize = ops[i].page
        /\ \E j \in FlushedOffsets(ops[i], ops[i].page) :
              /\ j < Len(pages[ops[i].page].data)
              /\ pages[ops[i].page].data[j + 1] #
                     StoredAt(underlying, ops[i].page * pageSize + j)
        /\ ~flushStored(Store, ops[i]).s.pages[ops[i].page].modified

\* the offsets within its page that the request o works on in this run
OwnOffsets(o) ==
    IF o.kind = "write"
    THEN {j \in 0..(pageSize - 1) :
             j >= o.at % pageSize /\ j < (o.at % pageSize) + Len(writeChunk(o))}
    ELSE IF o.kind = "del"
    THEN {j \in 0..(pageSize - 1) :
             j >= o.at % pageSize /\ j < (o.at % pageSize) + bytesToDelete(o)}
    ELSE {}

\* C36 (no lost update from concurrent page loads): a page load that
\* completes when the page is resident and modified does not replace it:
\* the bytes of the page, but for those the loading request itself writes
\* or deletes, are kept.
LoadKeepsWrittenPage ==
    [][\A i \in 1..MaxOps :
          (/\ CallsBack(i, "load")
           /\ ops[i].got = "data"
           /\ ops[i].page \in DOMAIN pages
           /\ pages[ops[i].page].modified)
          => \A j \in 0..(Len(pages[ops[i].page].data) - 1) :
                 j \notin OwnOffsets(ops[i]) =>
                     pages'[ops[i].page].data[j + 1] = pages[ops[i].page].data[j + 1]]_vars

\* ------------------------------------------------------------- completion
\* the requests of a caller who reads the first page, cuts it with
\* truncate, writes behind it, and deletes and flushes the first page
NextCompletion ==
    \/ Open("ok")
    \/ \E i \in 1..MaxOps : IssueRead(i, 0, 1)
    \/ \E i \in 1..MaxOps : IssueWrite(i, pageSize, Data(1, MaxByte))
    \/ \E i \in 1..MaxOps : \E throws \in BOOLEAN :
          IssueDel(i, 0, pageSize, throws)
    \/ \E i \in 1..MaxOps : IssueFlush(i, 0, pageSize)
    \/ \E i \in 1..MaxOps : \E throws \in BOOLEAN : ImmediateRuns(i, throws)
    \/ \E i \in 1..MaxOps : LoadCallsBack(i)
    \/ \E i \in 1..MaxOps : StoreCallsBack(i)
    \/ \E i \in 1..MaxOps : TruncateCallsBack(i)
    \/ TruncateBetween(1)

\* every callback that setImmediate or the underlying storage holds is
\* eventually run
SpecCompletion ==
    /\ Init /\ [][NextCompletion]_vars
    /\ \A i \in 1..MaxOps :
          /\ WF_vars(\E throws \in BOOLEAN : ImmediateRuns(i, throws))
          /\ WF_vars(LoadCallsBack(i))
          /\ WF_vars(StoreCallsBack(i))
          /\ WF_vars(TruncateCallsBack(i))

\* C40 (every operation completes exactly once): provided every call of the
\* underlying storage calls back, a request that is in flight is eventually
\* called back and leaves its slot, whatever its arguments and whatever
\* runs between its pages.
EveryRequestCompletes ==
    \A i \in 1..MaxOps : (ops[i].kind # "none") ~> (ops[i].kind = "none")

\* what the code does: a request is called back unless an exception leaves
\* its handler, which happens only in del, where a Node Buffer refuses to
\* fill past the end of a page that truncate has cut
CompletesUnlessThrown ==
    \A i \in 1..MaxOps :
        (ops[i].kind # "none") ~>
            (ops[i].kind = "none" \/ (ops[i].kind = "del" /\ ops[i].wait = "thrown"))

\* a del has thrown on a page that truncate has cut short
DelThrown ==
    \E i \in 1..MaxOps :
        /\ ops[i].wait = "thrown"
        /\ Len(pages[ops[i].at \div pageSize].data) < pageSize

====
